---- MODULE Spec2Model ----
(***************************************************************************)
(* Sprint health dashboard: the metrics engine of backend/crud.py.         *)
(*                                                                         *)
(* Text values are the Russian status / resolution strings of the source,  *)
(* transliterated to ASCII ("zakryto" is the source's 'закрыто').  A       *)
(* DataFrame is a record [columns, rows]; rows is a sequence of records.   *)
(* Times are integers counted in half days (UnitsPerDay units per day).    *)
(* Hour values are kept in tenths of an hour, the precision round(x, 1)    *)
(* leaves; other floats are exact rationals [n, d] with d > 0.             *)
(***************************************************************************)
EXTENDS Integers, Sequences, FiniteSets, TLC

VARIABLES
    tasks,       \* the tasks DataFrame a caller holds (data_loader.tasks)
    sprints,     \* the sprints DataFrame (sequence of sprint rows)
    history_df,  \* the history DataFrame
    call,        \* arguments of the latest calculate_metrics call, or NoCall
    outcome,     \* what that call did: returned a result, or raised
    repeat,      \* TRUE when the latest call repeated the arguments of the one before
    buckets,     \* results of the aggregators called directly on tasks
    data_loader, \* is_loaded and load_errors of the DataLoader that holds the tables
    analyzer     \* the module-level analyzer of new/api.py, or None

vars == <<tasks, sprints, history_df, call, outcome, repeat, buckets, data_loader, analyzer>>

(***************************************************************************)
(* Bounds of the model.                                                    *)
(***************************************************************************)
MaxTasks == 2     \* rows of a tasks DataFrame
MaxEvents == 2    \* rows of a history DataFrame

(***************************************************************************)
(* Values.                                                                 *)
(***************************************************************************)
NaN == "<NaN>"    \* a missing text value (numpy.nan in an object column)
NaT == -1         \* a missing timestamp
NoCall == [kind |-> "none"]
None == [kind |-> "None"]

\* DataLoader.__init__: is_loaded = False, load_errors = []
Constructed == [is_loaded |-> FALSE, load_errors |-> <<>>]

UnitsPerDay == 2
SecondsPerHour == 3600

\* str.lower() on the vocabulary of the model
LowerOf ==
    ("Sozdano" :> "sozdano") @@ ("Zakryto" :> "zakryto") @@
    ("Zakryto " :> "zakryto ") @@ ("V rabote" :> "v rabote") @@
    ("Zaversheno" :> "zaversheno") @@ ("Done" :> "done") @@
    ("Gotovo" :> "gotovo") @@ ("Dublikat" :> "dublikat") @@
    ("Otkloneno" :> "otkloneno") @@
    ("Zablokirovano TASK-456" :> "zablokirovano task-456") @@
    ("is blocked by TASK-123" :> "is blocked by task-123") @@
    ("relates to TASK-9" :> "relates to task-9") @@
    ("Sozdano -> V rabote" :> "sozdano -> v rabote") @@
    ("V rabote -> Zakryto" :> "v rabote -> zakryto") @@
    ("V rabote -> Testirovanie" :> "v rabote -> testirovanie") @@
    ("V rabote -> Zaversheno" :> "v rabote -> zaversheno") @@
    ("Zakryto -> Pereotkryto" :> "zakryto -> pereotkryto") @@
    ("<empty> -> S1" :> "<empty> -> s1") @@ ("S1 -> <empty>" :> "s1 -> <empty>") @@
    ("S1 -> S2" :> "s1 -> s2") @@
    ("S1 -> <empty> " :> "s1 -> <empty> ") @@ (" <empty> -> S1" :> " <empty> -> s1")

str_lower(s) == IF s = NaN THEN NaN ELSE IF s \in DOMAIN LowerOf THEN LowerOf[s] ELSE s

\* str.strip() on the vocabulary of the model
StripOf ==
    ("zakryto " :> "zakryto") @@ ("Zakryto " :> "Zakryto") @@
    (" v rabote" :> "v rabote")

str_strip(s) == IF s = NaN THEN NaN ELSE IF s \in DOMAIN StripOf THEN StripOf[s] ELSE s

\* Series.isin(values): NaN is in no set of strings
isin(s, values) == s # NaN /\ s \in values

\* the keywords and patterns of the source that each text of the vocabulary holds
SubstringsOf ==
    ("zablokirovano task-456" :> {"zablokirovano"}) @@
    ("is blocked by task-123" :> {"is blocked by"}) @@
    ("sozdano -> v rabote" :> {"sozdano -> v rabote", "-> v rabote"}) @@
    ("v rabote -> zakryto" :> {"v rabote -> zakryto", "-> zakryto"}) @@
    ("v rabote -> testirovanie" :> {"-> testirovanie"}) @@
    ("v rabote -> zaversheno" :> {"-> zaversheno"}) @@
    ("<empty> -> S1" :> {"<empty> ->"}) @@
    ("S1 -> <empty>" :> {"-> <empty>"}) @@
    ("<empty> -> s1" :> {"<empty> ->"}) @@
    ("s1 -> <empty>" :> {"-> <empty>"}) @@
    ("S1 -> <empty> " :> {"-> <empty>"}) @@
    (" <empty> -> S1" :> {"<empty> ->"})

\* 'keyword in text'
Contains(text, keyword) ==
    /\ text \in DOMAIN SubstringsOf
    /\ keyword \in SubstringsOf[text]

(***************************************************************************)
(* Arithmetic.                                                             *)
(***************************************************************************)
\* round(n / d) to the nearest integer, ties to even, for n >= 0 and d > 0
RoundHalfEven(n, d) ==
    LET q == n \div d
        r == n % d
    IN  IF 2 * r < d THEN q
        ELSE IF 2 * r > d THEN q + 1
        ELSE IF q % 2 = 0 THEN q ELSE q + 1

\* round(seconds / 3600, 1), in tenths of an hour
hours_tenths(seconds) == RoundHalfEven(seconds * 10, SecondsPerHour)

RECURSIVE estimation_sum(_)
estimation_sum(rows) ==
    IF rows = <<>> THEN 0 ELSE Head(rows).estimation + estimation_sum(Tail(rows))

(***************************************************************************)
(* The bucket aggregators, crud.py lines 17-134.                           *)
(***************************************************************************)
todo_statuses ==
    {"k vypolneniyu", "sozdano", "gotovo k razrabotke", "novyy",
     "otkryto", "zaplanirovano", "otlozhen", "v ozhidanii"}

\* the resolutions calculate_todo excludes (three, not four)
todo_excluded_resolutions == {"otkloneno", "otmeneno initsiatorom", "dublikat"}

done_statuses == {"zakryto", "vypolneno", "st zaversheno", "zaversheno"}

\* the done statuses of calculate_removed (two, not four)
removed_done_statuses == {"zakryto", "vypolneno"}

removed_resolutions ==
    {"otkloneno", "otmeneno initsiatorom", "dublikat", "otklonen ispolnitelem"}

\* the statuses calculate_blocked_tasks excludes
blocked_excluded_statuses == {"zakryto", "vypolneno", "done"}

\* calculate_todo lower-cases status and resolution of its argument in place
lowered_row(t) ==
    [t EXCEPT !.status = str_lower(t.status), !.resolution = str_lower(t.resolution)]

lowered(tasks_df) ==
    [tasks_df EXCEPT !.rows = [i \in DOMAIN tasks_df.rows |-> lowered_row(tasks_df.rows[i])]]

is_todo(t) ==
    /\ isin(t.status, todo_statuses)
    /\ (t.resolution = NaN \/ ~isin(t.resolution, todo_excluded_resolutions))

todo_tasks(tasks_df) == SelectSeq(lowered(tasks_df).rows, is_todo)

calculate_todo(tasks_df) == hours_tenths(estimation_sum(todo_tasks(tasks_df)))

\* calculate_in_progress calls calculate_todo first, so it reads the lowered frame
is_in_progress(t) ==
    /\ ~isin(str_lower(t.status), todo_statuses)
    /\ ~isin(str_lower(t.status), done_statuses)
    /\ (t.resolution = NaN \/ ~isin(str_lower(t.resolution), removed_resolutions))

in_progress_tasks(tasks_df) == SelectSeq(lowered(tasks_df).rows, is_in_progress)

calculate_in_progress(tasks_df) == hours_tenths(estimation_sum(in_progress_tasks(tasks_df)))

\* a done filter that does not look at the resolution
is_done_any_resolution(t) == isin(str_lower(t.status), done_statuses)

is_done(t) ==
    /\ isin(str_lower(t.status), done_statuses)
    /\ (t.resolution = NaN \/ ~isin(str_lower(t.resolution), removed_resolutions))

done_tasks(tasks_df) == SelectSeq(tasks_df.rows, is_done)

calculate_done(tasks_df) == hours_tenths(estimation_sum(done_tasks(tasks_df)))

is_removed(t) ==
    /\ isin(str_lower(t.status), removed_done_statuses)
    /\ isin(str_lower(t.resolution), removed_resolutions)

removed_tasks(tasks_df) == SelectSeq(tasks_df.rows, is_removed)

calculate_removed(tasks_df) == hours_tenths(estimation_sum(removed_tasks(tasks_df)))

has_blocking_link(t) ==
    IF t.links # NaN
    THEN Contains(str_lower(t.links), "zablokirovano")
         \/ Contains(str_lower(t.links), "is blocked by")
    ELSE FALSE

is_blocked(t) ==
    /\ has_blocking_link(t)
    /\ ~isin(str_lower(t.status), blocked_excluded_statuses)

blocked_tasks(tasks_df) ==
    IF "links" \notin tasks_df.columns THEN <<>> ELSE SelectSeq(tasks_df.rows, is_blocked)

calculate_blocked_tasks(tasks_df) ==
    IF "links" \notin tasks_df.columns THEN 0
    ELSE hours_tenths(estimation_sum(blocked_tasks(tasks_df)))

(***************************************************************************)
(* Floats that round(x, 1) has not touched are exact rationals [n, d],     *)
(* kept in lowest terms with d > 0.                                        *)
(***************************************************************************)
Abs(x) == IF x < 0 THEN -x ELSE x

RECURSIVE Gcd(_, _)
Gcd(a, b) == IF b = 0 THEN a ELSE Gcd(b, a % b)

Rat(n, d) ==
    LET g == Gcd(Abs(n), Abs(d))
        sgn == IF d < 0 THEN -1 ELSE 1
    IN  [n |-> sgn * (n \div g), d |-> sgn * (d \div g)]

RatInt(k) == [n |-> k, d |-> 1]
RatAdd(a, b) == Rat(a.n * b.d + b.n * a.d, a.d * b.d)
RatSub(a, b) == Rat(a.n * b.d - b.n * a.d, a.d * b.d)
RatMul(a, b) == Rat(a.n * b.n, a.d * b.d)
RatDiv(a, b) == Rat(a.n * b.d, a.d * b.n)
RatAbs(a) == [n |-> Abs(a.n), d |-> a.d]
RatLe(a, b) == a.n * b.d <= b.n * a.d
RatLt(a, b) == a.n * b.d < b.n * a.d
RatMax(a, b) == IF RatLe(a, b) THEN b ELSE a
RatMin(a, b) == IF RatLe(a, b) THEN a ELSE b

\* round(x, 1) of a rational x >= 0, in tenths
round1(x) == RoundHalfEven(x.n * 10, x.d)

\* a value in tenths, as the float it stands for
FromTenths(t) == Rat(t, 10)

(***************************************************************************)
(* Time: ticks, UnitsPerDay to the day.                                    *)
(***************************************************************************)
At(day, tick) == day * UnitsPerDay + tick

\* Timestamp.date(), as a day number
date_of(t) == t \div UnitsPerDay

\* Timedelta.days
days_of(delta) == delta \div UnitsPerDay

\* a window of three days instead of two
ThreeDays == 3 * UnitsPerDay

\* timedelta(days=2)
TwoDays == 2 * UnitsPerDay

\* the comparison turned round: column >= selected_end_date
on_or_after_cutoff(t, sprint_start, sprint_duration, time_frame) ==
    /\ t # NaT
    /\ (t - sprint_start) * 100 >= sprint_duration * time_frame

\* column <= selected_end_date, with selected_end_date =
\* sprint_start + sprint_duration * (time_frame / 100); a NaT compares False
on_or_before_cutoff(t, sprint_start, sprint_duration, time_frame) ==
    /\ t # NaT
    /\ (t - sprint_start) * 100 <= sprint_duration * time_frame

(***************************************************************************)
(* BucketSpec: the aggregators called directly on a tasks DataFrame.       *)
(* The frame is any selection of at most MaxTasks rows of BucketRows, one  *)
(* row for every status, resolution and links value of the vocabulary.     *)
(***************************************************************************)
BucketStatuses == <<"sozdano", "v rabote", "zakryto", "zaversheno", "done", "Zakryto">>
BucketResolutions == <<NaN, "gotovo", "otkloneno", "otklonen ispolnitelem">>
BucketLinks == <<NaN, "is blocked by TASK-123">>

BucketRow(id) ==
    LET k == id - 1
        ns == Len(BucketStatuses)
        nr == Len(BucketResolutions)
    IN  [entity_id |-> id,
         status |-> BucketStatuses[(k % ns) + 1],
         resolution |-> BucketResolutions[((k \div ns) % nr) + 1],
         links |-> BucketLinks[(k \div (ns * nr)) + 1],
         estimation |-> 1800 * (1 + (id % 3)),
         create_date |-> 0,
         update_date |-> NaT,
         area |-> "A"]

BucketIds == 1 .. (Len(BucketStatuses) * Len(BucketResolutions) * Len(BucketLinks))

BucketPool == [id \in BucketIds |-> BucketRow(id)]

\* the rows pool holds for ids, in increasing order of id
RECURSIVE RowsOf(_, _)
RowsOf(ids, pool) ==
    IF ids = {} THEN <<>>
    ELSE LET m == CHOOSE x \in ids : \A y \in ids : x <= y
         IN  <<pool[m]>> \o RowsOf(ids \ {m}, pool)

TaskColumns ==
    {"entity_id", "status", "resolution", "estimation", "create_date",
     "update_date", "area", "links"}

\* the subsets of S with at most n elements
RECURSIVE SubsetsUpTo(_, _)
SubsetsUpTo(S, n) ==
    IF n = 0 THEN {{}}
    ELSE LET smaller == SubsetsUpTo(S, n - 1)
         IN  smaller \cup {s \cup {x} : s \in smaller, x \in S}

BucketFrames ==
    {[columns |-> TaskColumns, rows |-> RowsOf(ids, BucketPool)] :
        ids \in SubsetsUpTo(BucketIds, MaxTasks)}

ids_of(rows) == {rows[i].entity_id : i \in DOMAIN rows}

\* an aggregator not called yet
NotCounted == [counted |-> FALSE, value |-> 0, ids |-> {}, count |-> 0]

NoBuckets ==
    [todo |-> NotCounted, in_progress |-> NotCounted, done |-> NotCounted,
     removed |-> NotCounted, blocked_tasks |-> NotCounted]

\* what one aggregator call leaves: the value returned, and the rows it summed
Counted(value, rows) ==
    [counted |-> TRUE, value |-> value, ids |-> ids_of(rows), count |-> Len(rows)]

InitBuckets ==
    /\ tasks \in BucketFrames
    /\ sprints = <<>>
    /\ history_df = [columns |-> {}, rows |-> <<>>]
    /\ call = NoCall
    /\ outcome = NoCall
    /\ repeat = FALSE
    /\ buckets = NoBuckets
    /\ data_loader = Constructed
    /\ analyzer = None

Call_calculate_todo ==
    /\ ~buckets.todo.counted
    /\ buckets' = [buckets EXCEPT !.todo = Counted(calculate_todo(tasks), todo_tasks(tasks))]
    /\ tasks' = lowered(tasks)
    /\ UNCHANGED <<sprints, history_df, call, outcome, repeat, data_loader, analyzer>>

Call_calculate_in_progress ==
    /\ ~buckets.in_progress.counted
    /\ buckets' = [buckets EXCEPT !.in_progress =
                      Counted(calculate_in_progress(tasks), in_progress_tasks(tasks))]
    /\ tasks' = lowered(tasks)
    /\ UNCHANGED <<sprints, history_df, call, outcome, repeat, data_loader, analyzer>>

Call_calculate_done ==
    /\ ~buckets.done.counted
    /\ buckets' = [buckets EXCEPT !.done = Counted(calculate_done(tasks), done_tasks(tasks))]
    /\ UNCHANGED <<tasks, sprints, history_df, call, outcome, repeat, data_loader, analyzer>>

Call_calculate_removed ==
    /\ ~buckets.removed.counted
    /\ buckets' = [buckets EXCEPT !.removed =
                      Counted(calculate_removed(tasks), removed_tasks(tasks))]
    /\ UNCHANGED <<tasks, sprints, history_df, call, outcome, repeat, data_loader, analyzer>>

Call_calculate_blocked_tasks ==
    /\ ~buckets.blocked_tasks.counted
    /\ buckets' = [buckets EXCEPT !.blocked_tasks =
                      Counted(calculate_blocked_tasks(tasks), blocked_tasks(tasks))]
    /\ UNCHANGED <<tasks, sprints, history_df, call, outcome, repeat, data_loader, analyzer>>

NextBuckets ==
    \/ Call_calculate_todo
    \/ Call_calculate_in_progress
    \/ Call_calculate_done
    \/ Call_calculate_removed
    \/ Call_calculate_blocked_tasks

BucketSpec == InitBuckets /\ [][NextBuckets]_vars

FourBucketsCounted ==
    /\ buckets.todo.counted
    /\ buckets.in_progress.counted
    /\ buckets.done.counted
    /\ buckets.removed.counted

\* C1: the four bucket aggregators partition the subset exactly: the hours they
\* return add up to the hours of the whole subset, and the tasks they count add up
\* to the number of tasks of the subset.
C1_BucketsPartitionSubset ==
    FourBucketsCounted =>
        /\ buckets.todo.count + buckets.in_progress.count
             + buckets.done.count + buckets.removed.count = Len(tasks.rows)
        /\ buckets.todo.value + buckets.in_progress.value
             + buckets.done.value + buckets.removed.value
             = hours_tenths(estimation_sum(tasks.rows))

in_done_status_set(t) == isin(str_strip(str_lower(t.status)), done_statuses)
in_todo_status_set(t) == isin(str_strip(str_lower(t.status)), todo_statuses)
has_removed_resolution(t) == isin(str_strip(str_lower(t.resolution)), removed_resolutions)

\* C2: every task whose status is in the done-status set of calculate_done and
\* whose resolution is a removed resolution is counted by calculate_removed and
\* is not counted by calculate_done.
C2_DoneStatusRemovedResolutionIsRemoved ==
    (buckets.done.counted /\ buckets.removed.counted) =>
        \A i \in DOMAIN tasks.rows :
            (in_done_status_set(tasks.rows[i]) /\ has_removed_resolution(tasks.rows[i])) =>
                /\ tasks.rows[i].entity_id \in buckets.removed.ids
                /\ tasks.rows[i].entity_id \notin buckets.done.ids

\* C3: every task that calculate_removed, calculate_done and calculate_todo do not
\* count is counted by calculate_in_progress.
C3_EverythingElseIsInProgress ==
    FourBucketsCounted =>
        \A i \in DOMAIN tasks.rows :
            (tasks.rows[i].entity_id \notin
                (buckets.removed.ids \cup buckets.done.ids \cup buckets.todo.ids)) =>
                tasks.rows[i].entity_id \in buckets.in_progress.ids

\* C9: blocked is not a distinct bucket: every task counted by
\* calculate_blocked_tasks is still counted in one of the four status buckets, and
\* when every task of the subset is in progress and blocked, blocked_tasks equals
\* in_progress.
C9_BlockedTasksStayInTheirBucket ==
    (FourBucketsCounted /\ buckets.blocked_tasks.counted) =>
        /\ buckets.blocked_tasks.ids \subseteq
              (buckets.todo.ids \cup buckets.in_progress.ids
                 \cup buckets.done.ids \cup buckets.removed.ids)
        /\ (buckets.blocked_tasks.ids = ids_of(tasks.rows)
              /\ buckets.in_progress.ids = ids_of(tasks.rows)) =>
                buckets.blocked_tasks.value = buckets.in_progress.value

\* C10: no task that calculate_done or calculate_removed counts is counted by
\* calculate_blocked_tasks, whatever its links field holds.
C10_BlockedExcludesDoneStatuses ==
    (buckets.done.counted /\ buckets.removed.counted /\ buckets.blocked_tasks.counted) =>
        buckets.blocked_tasks.ids \cap (buckets.done.ids \cup buckets.removed.ids) = {}

\* C22: no aggregator mutates the task collection it receives: after
\* calculate_todo, calculate_in_progress, calculate_done, calculate_removed or
\* calculate_blocked_tasks returns, every column of its tasks_df argument holds
\* the values it held before the call.
C22_AggregatorsLeaveArgumentUnchanged == [][tasks' = tasks]_vars

\* C25: the four buckets are mutually exclusive: no task is counted by more than
\* one of calculate_todo, calculate_in_progress, calculate_done and
\* calculate_removed.
C25_BucketsMutuallyExclusive ==
    /\ buckets.todo.ids \cap buckets.in_progress.ids = {}
    /\ buckets.todo.ids \cap buckets.done.ids = {}
    /\ buckets.todo.ids \cap buckets.removed.ids = {}
    /\ buckets.in_progress.ids \cap buckets.done.ids = {}
    /\ buckets.in_progress.ids \cap buckets.removed.ids = {}
    /\ buckets.done.ids \cap buckets.removed.ids = {}

\* the four aggregators called on a frame with a task of a done status that
\* calculate_done counted and one of a done status that calculate_removed counted
C25_Witness ==
    /\ FourBucketsCounted
    /\ buckets.done.count > 0
    /\ buckets.removed.count > 0

(***************************************************************************)
(* The history aggregators, crud.py lines 102-210.                         *)
(***************************************************************************)
Range(seq) == {seq[i] : i \in DOMAIN seq}

EmptyDict == <<>>

DictGet(dict, key, default) == IF key \in DOMAIN dict THEN dict[key] ELSE default

DictPut(dict, key, value) == (key :> value) @@ dict

calculate_backlog_changes(tasks_df, sprint_info) ==
    LET two_days_after == sprint_info.sprint_start_date + TwoDays
        initial_tasks == SelectSeq(tasks_df.rows, LAMBDA t : t.create_date <= two_days_after)
        added_tasks == SelectSeq(tasks_df.rows, LAMBDA t : t.create_date > two_days_after)
        initial_estimation == estimation_sum(initial_tasks)
        added_estimation == estimation_sum(added_tasks)
    IN  IF initial_estimation = 0 THEN 0
        ELSE RoundHalfEven(added_estimation * 100 * 10, initial_estimation)

history_unavailable(history) ==
    history.rows = <<>> \/ "history_property_name" \notin history.columns

in_sprint_dates(h, sprint_info) ==
    /\ h.history_date >= sprint_info.sprint_start_date
    /\ h.history_date <= sprint_info.sprint_end_date

sprint_changes(history, sprint_info) ==
    SelectSeq(history.rows,
              LAMBDA h : h.history_property_name = "Sprint" /\ in_sprint_dates(h, sprint_info))

NoDailyChange == [hours |-> RatInt(0), count |-> 0]

\* the loop of calculate_excluded_tasks / calculate_added_tasks over sprint_changes
RECURSIVE daily_changes(_, _, _, _)
daily_changes(changes, tasks_df, marker, daily) ==
    IF changes = <<>> THEN daily
    ELSE LET change == Head(changes)
             date == date_of(change.history_date)
             task == SelectSeq(tasks_df.rows, LAMBDA t : t.entity_id = change.entity_id)
             hit == /\ change.history_change # NaN
                    /\ Contains(change.history_change, marker)
                    /\ task # <<>>
             old == DictGet(daily, date, NoDailyChange)
             new == [hours |-> RatAdd(old.hours, Rat(task[1].estimation, SecondsPerHour)),
                     count |-> old.count + 1]
         IN  daily_changes(Tail(changes), tasks_df, marker,
                           IF hit THEN DictPut(daily, date, new) ELSE daily)

calculate_excluded_tasks(tasks_df, sprint_info, history) ==
    IF history_unavailable(history) THEN EmptyDict
    ELSE daily_changes(sprint_changes(history, sprint_info), tasks_df, "-> <empty>", EmptyDict)

calculate_added_tasks(tasks_df, sprint_info, history) ==
    IF history_unavailable(history) THEN EmptyDict
    ELSE daily_changes(sprint_changes(history, sprint_info), tasks_df, "<empty> ->", EmptyDict)

(***************************************************************************)
(* Status transitions, crud.py lines 212-341.                              *)
(***************************************************************************)
to_in_progress_patterns ==
    <<"sozdano -> v rabote", "k vypolneniyu -> v rabote", "analiz -> razrabotka",
      "gotovo k razrabotke -> v razrabotke", "-> v rabote", "-> razrabotka",
      "-> testirovanie", "sozdano -> razrabotka", "sozdano -> analiz",
      "-> v protsesse", "-> ispravlenie">>

to_done_patterns ==
    <<"-> vypolneno", "-> zakryto", "-> st zaversheno", "-> zaversheno",
      "v rabote -> zakryto", "testirovanie -> zakryto", "razrabotka -> vypolneno">>

\* for transition in patterns: if transition in history_change: ... break
matches_any(text, patterns) == \E i \in DOMAIN patterns : Contains(text, patterns[i])

\* status changes of the tasks of the sprint only
status_changes_of_sprint_tasks(history, sprint_info) ==
    SelectSeq(history.rows,
              LAMBDA h : /\ h.history_property_name = "Status"
                         /\ in_sprint_dates(h, sprint_info)
                         /\ h.entity_id \in sprint_info.entity_ids)

status_changes(history, sprint_info) ==
    SelectSeq(history.rows,
              LAMBDA h : h.history_property_name = "Status" /\ in_sprint_dates(h, sprint_info))

NoDailyStats == [to_in_progress |-> 0, to_done |-> 0, total_changes |-> 0]

RECURSIVE daily_stats_of(_, _)
daily_stats_of(changes, daily_stats) ==
    IF changes = <<>> THEN daily_stats
    ELSE LET change == Head(changes)
             history_change == str_lower(change.history_change)
             date == date_of(change.history_date)
             old == DictGet(daily_stats, date, NoDailyStats)
             new == [to_in_progress |-> old.to_in_progress
                        + (IF matches_any(history_change, to_in_progress_patterns) THEN 1 ELSE 0),
                     to_done |-> old.to_done
                        + (IF matches_any(history_change, to_done_patterns) THEN 1 ELSE 0),
                     total_changes |-> old.total_changes + 1]
         IN  daily_stats_of(Tail(changes), DictPut(daily_stats, date, new))

RECURSIVE sum_over_days(_, _, _)
sum_over_days(daily_stats, days, field) ==
    IF days = {} THEN 0
    ELSE LET day == CHOOSE x \in days : TRUE
         IN  daily_stats[day][field] + sum_over_days(daily_stats, days \ {day}, field)

total_of(daily_stats, field) == sum_over_days(daily_stats, DOMAIN daily_stats, field)

\* sum(abs(day['total_changes'] - ideal_daily) for day in daily_stats.values())
RECURSIVE deviation_sum(_, _, _)
deviation_sum(daily_stats, days, ideal_daily) ==
    IF days = {} THEN RatInt(0)
    ELSE LET day == CHOOSE x \in days : TRUE
         IN  RatAdd(RatAbs(RatSub(RatInt(daily_stats[day].total_changes), ideal_daily)),
                    deviation_sum(daily_stats, days \ {day}, ideal_daily))

\* the evenness without its max(0, ...)
evenness_unclamped(daily_stats, sprint_duration) ==
    IF DOMAIN daily_stats = {} THEN RatInt(0)
    ELSE LET duration_days == days_of(sprint_duration)
             total_changes == total_of(daily_stats, "total_changes")
             ideal_daily == IF duration_days > 0 THEN Rat(total_changes, duration_days)
                            ELSE RatInt(0)
             actual_days == Cardinality(DOMAIN daily_stats)
         IN  IF actual_days = 0 \/ ideal_daily.n = 0 THEN RatInt(0)
             ELSE LET variance == RatDiv(deviation_sum(daily_stats, DOMAIN daily_stats, ideal_daily),
                                         RatInt(actual_days))
                  IN  RatSub(RatInt(100), RatMul(RatDiv(variance, ideal_daily), RatInt(100)))

calculate_transition_evenness(daily_stats, sprint_duration) ==
    IF DOMAIN daily_stats = {} THEN RatInt(0)
    ELSE LET duration_days == days_of(sprint_duration)
             total_changes == total_of(daily_stats, "total_changes")
             ideal_daily == IF duration_days > 0 THEN Rat(total_changes, duration_days)
                            ELSE RatInt(0)
             actual_days == Cardinality(DOMAIN daily_stats)
         IN  IF actual_days = 0 \/ ideal_daily.n = 0 THEN RatInt(0)
             ELSE LET variance == RatDiv(deviation_sum(daily_stats, DOMAIN daily_stats, ideal_daily),
                                         RatInt(actual_days))
                  IN  IF RatLt(RatInt(0), ideal_daily)
                      THEN RatMax(RatInt(0),
                                  RatSub(RatInt(100),
                                         RatMul(RatDiv(variance, ideal_daily), RatInt(100))))
                      ELSE RatInt(0)

\* a dict that outlives the call (a mutable default argument): the next call
\* starts from the daily_distribution the previous result still holds
leaked_daily_stats ==
    IF outcome.kind = "returned"
    THEN outcome.result.status_transitions.daily_distribution
    ELSE EmptyDict

\* daily_stats = {}: a new dict in every call
fresh_daily_stats == EmptyDict

\* the early return reporting a fully even sprint
FullyEvenTransitions ==
    [last_day_completion_percentage |-> RatInt(0),
     daily_distribution |-> EmptyDict,
     transition_evenness |-> RatInt(100)]

NoTransitions ==
    [last_day_completion_percentage |-> RatInt(0),
     daily_distribution |-> EmptyDict,
     transition_evenness |-> RatInt(0)]

analyze_status_transitions(history, sprint_info) ==
    IF history_unavailable(history) THEN NoTransitions
    ELSE LET sprint_start == sprint_info.sprint_start_date
             sprint_end == sprint_info.sprint_end_date
             sprint_duration == sprint_end - sprint_start
             daily_stats == daily_stats_of(status_changes(history, sprint_info), fresh_daily_stats)
             total_to_done == total_of(daily_stats, "to_done")
             last_day_done == DictGet(daily_stats, date_of(sprint_end), NoDailyStats).to_done
             evenness == calculate_transition_evenness(daily_stats, sprint_duration)
         IN  [last_day_completion_percentage |->
                 IF total_to_done > 0 THEN Rat(last_day_done * 100, total_to_done)
                 ELSE RatInt(0),
              daily_distribution |-> daily_stats,
              transition_evenness |-> evenness]

(***************************************************************************)
(* Health score, crud.py lines 343-410.                                    *)
(***************************************************************************)
ZeroHealth ==
    [score |-> 0,
     details |-> [delivery_score |-> 0, stability_score |-> 0, flow_score |-> 0,
                  quality_score |-> 0, team_load_score |-> 0, completion_rate |-> 0,
                  blocked_ratio |-> 0, last_day_completion |-> 0]]

\* min(100, max(0, x))
clamp_0_100(x) == RatMin(RatInt(100), RatMax(RatInt(0), x))

\* metrics holds hours and backlog_changes in tenths; score and details are in tenths
calculate_sprint_health(metrics) ==
    LET total_tasks == metrics.todo + metrics.in_progress + metrics.done + metrics.removed
    IN  IF total_tasks = 0 THEN ZeroHealth
        ELSE LET completion_rate == Rat(metrics.done * 100, total_tasks)
                 blocked_ratio == Rat(metrics.blocked_tasks * 100, total_tasks)
                 last_day_completion == metrics.status_transitions.last_day_completion_percentage
                 delivery_score == clamp_0_100(completion_rate)
                 stability_score ==
                     clamp_0_100(RatSub(RatInt(100), FromTenths(metrics.backlog_changes)))
                 flow_score == clamp_0_100(RatSub(RatInt(100), blocked_ratio))
                 quality_score == clamp_0_100(RatSub(RatInt(100), last_day_completion))
                 team_load_score == RatInt(80)
                 health_score ==
                     RatAdd(RatMul(delivery_score, Rat(25, 100)),
                     RatAdd(RatMul(stability_score, Rat(20, 100)),
                     RatAdd(RatMul(flow_score, Rat(20, 100)),
                     RatAdd(RatMul(quality_score, Rat(20, 100)),
                            RatMul(team_load_score, Rat(15, 100))))))
             IN  [score |-> round1(health_score),
                  details |-> [delivery_score |-> round1(delivery_score),
                               stability_score |-> round1(stability_score),
                               flow_score |-> round1(flow_score),
                               quality_score |-> round1(quality_score),
                               team_load_score |-> round1(team_load_score),
                               completion_rate |-> round1(completion_rate),
                               blocked_ratio |-> round1(blocked_ratio),
                               last_day_completion |-> round1(last_day_completion)]]

(***************************************************************************)
(* The orchestrator, crud.py lines 412-594.                                *)
(***************************************************************************)
NaNNumber == -1   \* a missing or unparseable estimation

\* pd.to_numeric(x, errors='coerce').fillna(0)
to_numeric_fillna(x) == IF x = NaNNumber THEN 0 ELSE x

with_numeric_estimation(tasks_df) ==
    [tasks_df EXCEPT !.rows =
        [i \in DOMAIN tasks_df.rows |->
            [tasks_df.rows[i] EXCEPT !.estimation = to_numeric_fillna(tasks_df.rows[i].estimation)]]]

\* the frame _calculate_base_metrics leaves: estimation numeric (line 416), status
\* and resolution lower-cased by calculate_todo (lines 20-21)
base_metrics_frame(sprint_tasks) == lowered(with_numeric_estimation(sprint_tasks))

_calculate_base_metrics(sprint_tasks, sprint_info, history) ==
    LET numeric == with_numeric_estimation(sprint_tasks)
        todo_value == calculate_todo(numeric)
        frame == lowered(numeric)
        in_progress == calculate_in_progress(frame)
        done == calculate_done(frame)
        removed == calculate_removed(frame)
        backlog_changes == calculate_backlog_changes(frame, sprint_info)
        blocked == calculate_blocked_tasks(frame)
        excluded_tasks == calculate_excluded_tasks(frame, sprint_info, history)
        added_tasks == calculate_added_tasks(frame, sprint_info, history)
        status_transitions == analyze_status_transitions(history, sprint_info)
        sprint_health ==
            calculate_sprint_health(
                [todo |-> todo_value, in_progress |-> in_progress, done |-> done,
                 removed |-> removed, backlog_changes |-> backlog_changes,
                 blocked_tasks |-> blocked, status_transitions |-> status_transitions])
    IN  [todo |-> todo_value,
         in_progress |-> in_progress,
         done |-> done,
         removed |-> removed,
         backlog_changes |-> backlog_changes,
         blocked_tasks |-> blocked,
         excluded_tasks |-> excluded_tasks,
         added_tasks |-> added_tasks,
         status_transitions |-> status_transitions,
         health_score |-> sprint_health.score,
         health_details |-> sprint_health.details]

\* the result of the empty-task-table path, lines 506-531
ZeroMetrics ==
    [todo |-> 0, in_progress |-> 0, done |-> 0, removed |-> 0,
     backlog_changes |-> 0, blocked_tasks |-> 0,
     excluded_tasks |-> EmptyDict, added_tasks |-> EmptyDict,
     status_transitions |-> NoTransitions,
     health_score |-> 0,
     health_details |-> EmptyDict,
     health_metrics |-> [todo_percentage |-> 0, removed_percentage |-> 0,
                         backlog_change_percentage |-> 0, transition_evenness |-> 0,
                         last_day_completion_percentage |-> 0]]

\* the selected sprints in the order of the selection, not of the table
RECURSIVE matching_sprints_in_selection_order(_, _)
matching_sprints_in_selection_order(sprint_rows, selected_sprints) ==
    IF selected_sprints = <<>> THEN <<>>
    ELSE SelectSeq(sprint_rows, LAMBDA r : r.sprint_name = Head(selected_sprints))
         \o matching_sprints_in_selection_order(sprint_rows, Tail(selected_sprints))

\* sprints[sprints['sprint_name'].isin(selected_sprints)]
matching_sprints(sprint_rows, selected_sprints) ==
    SelectSeq(sprint_rows, LAMBDA r : r.sprint_name \in Range(selected_sprints))

\* a filter that looks at create_date only
in_time_frame_by_creation(t, sprint_info, time_frame) ==
    /\ t.entity_id \in sprint_info.entity_ids
    /\ on_or_before_cutoff(t.create_date, sprint_info.sprint_start_date,
                           sprint_info.sprint_end_date - sprint_info.sprint_start_date,
                           time_frame)

\* the time-frame filter, lines 544-551
in_time_frame(t, sprint_info, time_frame) ==
    LET sprint_start == sprint_info.sprint_start_date
        sprint_duration == sprint_info.sprint_end_date - sprint_start
    IN  /\ t.entity_id \in sprint_info.entity_ids
        /\ \/ on_or_before_cutoff(t.create_date, sprint_start, sprint_duration, time_frame)
           \/ on_or_before_cutoff(t.update_date, sprint_start, sprint_duration, time_frame)
           \/ (t.update_date = NaT
               /\ on_or_before_cutoff(t.create_date, sprint_start, sprint_duration, time_frame))

normalized_row(t) ==
    [t EXCEPT !.status = str_strip(str_lower(t.status)),
              !.resolution = str_strip(str_lower(t.resolution))]

\* tasks_in_sprint, after the normalisation of lines 558-559
tasks_in_sprint(tasks_df, sprint_info, time_frame) ==
    LET kept == SelectSeq(tasks_df.rows, LAMBDA t : in_time_frame(t, sprint_info, time_frame))
    IN  [tasks_df EXCEPT !.rows = [i \in DOMAIN kept |-> normalized_row(kept[i])]]

\* a query that forgets the area filter
area_filter_skipped(tasks_df, selected_areas) == tasks_df

\* sprint_tasks, lines 567-569
area_filtered(tasks_df, selected_areas) ==
    [tasks_df EXCEPT !.rows = SelectSeq(tasks_df.rows, LAMBDA t : t.area \in selected_areas)]

sprint_tasks_of(tasks_df, sprint_info, selected_areas, time_frame) ==
    area_filtered(tasks_in_sprint(tasks_df, sprint_info, time_frame), selected_areas)

Raised(error) == [kind |-> "raised", error |-> error]

\* done_count is the "Done tasks count" calculate_done logs
Returned(result, done_count) ==
    [kind |-> "returned", result |-> result, done_count |-> done_count]

calculate_metrics(tasks_df, sprint_rows, history, selected_sprints, selected_areas, time_frame) ==
    IF sprint_rows = <<>> THEN Raised("ValueError: No sprint data available")
    ELSE LET found == matching_sprints(sprint_rows, selected_sprints)
         IN  IF found = <<>> THEN Raised("ValueError: No sprint found with names")
             ELSE LET sprint_info == found[1]
                  IN  IF tasks_df.rows = <<>> THEN Returned(ZeroMetrics, 0)
                      ELSE LET sprint_tasks ==
                                   sprint_tasks_of(tasks_df, sprint_info, selected_areas, time_frame)
                           IN  Returned(_calculate_base_metrics(sprint_tasks, sprint_info, history),
                                        Len(done_tasks(base_metrics_frame(sprint_tasks))))

\* the writes of the query reaching the caller's frame (a view, not a copy)
frame_written_through(tasks_df, written) ==
    [tasks_df EXCEPT !.rows =
        [i \in DOMAIN tasks_df.rows |->
            LET same == SelectSeq(written.rows,
                                  LAMBDA w : w.entity_id = tasks_df.rows[i].entity_id)
            IN  IF same = <<>> THEN tasks_df.rows[i] ELSE same[1]]]

\* What the caller's tasks frame holds after the call.  Lines 551 and 569 take
\* .copy(), so every write of the query (lines 558-559, 416, 20-21) lands on the copy.
frame_after_query(tasks_df, written) == tasks_df

\* the frame the query wrote to: the filtered copy, normalised, with numeric
\* estimation and lower-cased by calculate_todo; no rows when the call ended before
working_frame(tasks_df, sprint_rows, selected_sprints, selected_areas, time_frame) ==
    LET found == matching_sprints(sprint_rows, selected_sprints)
    IN  IF sprint_rows = <<>> \/ found = <<>> \/ tasks_df.rows = <<>>
        THEN [tasks_df EXCEPT !.rows = <<>>]
        ELSE base_metrics_frame(sprint_tasks_of(tasks_df, found[1], selected_areas, time_frame))

(***************************************************************************)
(* Spec: calculate_metrics called on loaded tables.  The tables are        *)
(* selections of the rows below; every call is one step.                   *)
(***************************************************************************)
Task(id, status, resolution, estimation, create_date, update_date, area, links) ==
    [entity_id |-> id, status |-> status, resolution |-> resolution,
     estimation |-> estimation, create_date |-> create_date,
     update_date |-> update_date, area |-> area, links |-> links]

\* sprint S1 runs from day 1 to day 4, sprint S2 is shorter than a day
SprintS1 ==
    [sprint_name |-> "S1", sprint_start_date |-> At(1, 0), sprint_end_date |-> At(4, 0),
     entity_ids |-> 1 .. 9]

SprintS2 ==
    [sprint_name |-> "S2", sprint_start_date |-> At(1, 0), sprint_end_date |-> At(1, 1),
     entity_ids |-> {2, 3, 5}]

TaskPool ==
    <<Task(1, "Sozdano", NaN, 3600, At(1, 1), NaT, "A", NaN),
      Task(2, "V rabote", NaN, 7200, At(0, 0), At(2, 0), "A", "is blocked by TASK-123"),
      Task(3, "Zakryto ", "Gotovo", 3600, At(3, 1), At(1, 0), "A", NaN),
      Task(4, "Zakryto", "Dublikat", 1800, At(1, 0), NaT, "A", NaN),
      Task(5, "zaversheno", NaN, 1800, At(3, 1), NaT, "B", NaN),
      Task(6, "Zakryto", NaN, 5400, At(5, 0), At(5, 0), "A", NaN),
      Task(7, "Zakryto", "Gotovo", NaNNumber, At(2, 1), NaT, "B", "Zablokirovano TASK-456"),
      Task(8, "zaversheno", "Otkloneno", 3600, At(1, 0), NaT, "A", "is blocked by TASK-123"),
      Task(9, "V rabote", NaN, 3600, At(3, 1), At(4, 0), "A", NaN),
      Task(10, "Zakryto", "Gotovo", 3600, At(1, 0), NaT, "A", NaN)>>

TaskFrames ==
    {[columns |-> TaskColumns, rows |-> RowsOf(ids, TaskPool)] :
        ids \in SubsetsUpTo(DOMAIN TaskPool, MaxTasks)}

DefaultTasks == [columns |-> TaskColumns, rows |-> RowsOf({1, 2, 3, 5, 9}, TaskPool)]

Event(entity_id, property, date, change) ==
    [entity_id |-> entity_id, history_property_name |-> property,
     history_date |-> date, history_change |-> change]

EventPool ==
    <<Event(3, "Status", At(4, 0), "V rabote -> Zakryto"),
      Event(2, "Status", At(2, 0), "Sozdano -> V rabote"),
      Event(3, "Status", At(2, 1), "V rabote -> Zakryto"),
      Event(1, "Status", At(3, 0), "Zakryto -> Pereotkryto"),
      Event(4, "Sprint", At(2, 0), "S1 -> <empty>"),
      Event(9, "Sprint", At(3, 1), "<empty> -> S1"),
      Event(99, "Sprint", At(3, 0), "<empty> -> S1"),
      Event(2, "Status", At(5, 0), "V rabote -> Zakryto"),
      Event(2, "Assignee", At(2, 0), "S1 -> S2"),
      Event(5, "Status", At(1, 0), "V rabote -> Zaversheno")>>

HistoryColumns == {"entity_id", "history_property_name", "history_date", "history_change"}

\* pd.DataFrame(): no columns, no rows
NoHistory == [columns |-> {}, rows |-> <<>>]

\* a history table loaded without its history_property_name column
HistoryWithoutProperty ==
    [columns |-> HistoryColumns \ {"history_property_name"},
     rows |-> <<[entity_id |-> 3, history_date |-> At(2, 1),
                 history_change |-> "V rabote -> Zakryto"],
                [entity_id |-> 9, history_date |-> At(3, 1),
                 history_change |-> "<empty> -> S1"]>>]

\* sprint-field changes read with a blank after, or before, the change text
SprintChangesWithBlanks ==
    [columns |-> HistoryColumns,
     rows |-> <<Event(1, "Sprint", At(2, 0), "S1 -> <empty> "),
                Event(2, "Sprint", At(2, 1), " <empty> -> S1")>>]

HistoryFrames ==
    {[columns |-> HistoryColumns, rows |-> RowsOf(ids, EventPool)] :
        ids \in SubsetsUpTo(DOMAIN EventPool, MaxEvents)}
    \cup {NoHistory, HistoryWithoutProperty, SprintChangesWithBlanks}

\* a history with a status change inside the short sprint S2
ShortSprintHistory == [columns |-> HistoryColumns, rows |-> RowsOf({3, 10}, EventPool)]

\* a tasks table loaded without its links column
TasksWithoutLinks ==
    [columns |-> TaskColumns \ {"links"},
     rows |-> [i \in DOMAIN DefaultTasks.rows |->
                  [f \in DOMAIN DefaultTasks.rows[i] \ {"links"} |-> DefaultTasks.rows[i][f]]]]

DefaultHistory == [columns |-> HistoryColumns, rows |-> RowsOf({1, 2, 4, 5, 6}, EventPool)]

SprintFrames == {<<>>, <<SprintS1>>, <<SprintS1, SprintS2>>, <<SprintS2, SprintS1>>}

SprintSelections == {<<"S1">>, <<"S2", "S1">>, <<"SX">>}
AreaSelections == {{}, {"A"}, {"A", "B"}}
TimeFrames == {0, 50, 100}

Init ==
    /\ \/ /\ tasks \in TaskFrames
          /\ sprints = <<SprintS1, SprintS2>>
          /\ history_df = DefaultHistory
       \/ /\ tasks = DefaultTasks
          /\ sprints = <<SprintS1, SprintS2>>
          /\ history_df \in HistoryFrames
       \/ /\ tasks = DefaultTasks
          /\ sprints \in SprintFrames
          /\ history_df \in {DefaultHistory, ShortSprintHistory}
       \/ /\ tasks = TasksWithoutLinks
          /\ sprints = <<SprintS1, SprintS2>>
          /\ history_df \in {DefaultHistory, HistoryWithoutProperty}
    /\ call = NoCall
    /\ outcome = NoCall
    /\ repeat = FALSE
    /\ buckets = NoBuckets
    /\ data_loader = Constructed
    /\ analyzer = None

Call(selected_sprints, selected_areas, time_frame) ==
    [kind |-> "call", selected_sprints |-> selected_sprints,
     selected_areas |-> selected_areas, time_frame |-> time_frame]

CalculateMetrics(selected_sprints, selected_areas, time_frame) ==
    /\ call' = Call(selected_sprints, selected_areas, time_frame)
    /\ repeat' = (call = Call(selected_sprints, selected_areas, time_frame))
    /\ outcome' = calculate_metrics(tasks, sprints, history_df,
                                    selected_sprints, selected_areas, time_frame)
    /\ tasks' = frame_after_query(tasks,
                    working_frame(tasks, sprints, selected_sprints, selected_areas, time_frame))
    /\ UNCHANGED <<sprints, history_df, buckets, data_loader, analyzer>>

Next ==
    \E selected_sprints \in SprintSelections, selected_areas \in AreaSelections,
       time_frame \in TimeFrames :
        CalculateMetrics(selected_sprints, selected_areas, time_frame)

Spec == Init /\ [][Next]_vars

ReturnedResult == outcome.kind = "returned"

\* C4: in every result calculate_metrics returns, health_score and
\* transition_evenness are within [0,100], and last_day_completion_percentage is
\* within [0,100] when a transition into done was counted and is 0 otherwise.
C4_BoundedPercentages ==
    ReturnedResult =>
        LET transitions == outcome.result.status_transitions
            to_done == total_of(transitions.daily_distribution, "to_done")
            last_day == transitions.last_day_completion_percentage
        IN  /\ 0 <= outcome.result.health_score
            /\ outcome.result.health_score <= 1000
            /\ RatLe(RatInt(0), transitions.transition_evenness)
            /\ RatLe(transitions.transition_evenness, RatInt(100))
            /\ (to_done > 0 => RatLe(RatInt(0), last_day) /\ RatLe(last_day, RatInt(100)))
            /\ (to_done = 0 => last_day = RatInt(0))

\* a result with a transition into done on the last day of the sprint, an
\* evenness that max(0, ...) brought up to 0 and a health score above 0
C4_Witness ==
    /\ ReturnedResult
    /\ total_of(outcome.result.status_transitions.daily_distribution, "to_done") > 0
    /\ RatLt(RatInt(0), outcome.result.status_transitions.last_day_completion_percentage)
    /\ outcome.result.status_transitions.transition_evenness = RatInt(0)
    /\ outcome.result.health_score > 0

\* the sprint a call resolves: the first row whose name is selected
ResolvesSprint ==
    /\ call.kind = "call"
    /\ \E i \in DOMAIN sprints : sprints[i].sprint_name \in Range(call.selected_sprints)

ResolvedSprint ==
    sprints[CHOOSE i \in DOMAIN sprints :
                /\ sprints[i].sprint_name \in Range(call.selected_sprints)
                /\ \A j \in 1 .. (i - 1) : sprints[j].sprint_name \notin Range(call.selected_sprints)]

\* t is a task of the resolved sprint and of a selected area, created or updated
\* at or before the cutoff of the call's time frame
MatchesQuery(t) ==
    LET start == ResolvedSprint.sprint_start_date
        span == ResolvedSprint.sprint_end_date - start
    IN  /\ t.entity_id \in ResolvedSprint.entity_ids
        /\ t.area \in call.selected_areas
        /\ \/ (t.create_date - start) * 100 <= span * call.time_frame
           \/ (t.update_date # NaT /\ (t.update_date - start) * 100 <= span * call.time_frame)

NoTaskMatches == \A i \in DOMAIN tasks.rows : ~MatchesQuery(tasks.rows[i])

\* C5: a query that resolves a sprint and whose filtered subset has no tasks
\* returns, without raising, a result whose todo, in_progress, done, removed,
\* blocked_tasks, backlog_changes and health_score are 0 and whose health_details
\* holds no sub-score other than 0.
C5_EmptySubsetYieldsZeros ==
    (ResolvesSprint /\ NoTaskMatches) =>
        /\ ReturnedResult
        /\ outcome.result.todo = 0
        /\ outcome.result.in_progress = 0
        /\ outcome.result.done = 0
        /\ outcome.result.removed = 0
        /\ outcome.result.blocked_tasks = 0
        /\ outcome.result.backlog_changes = 0
        /\ outcome.result.health_score = 0
        /\ \A k \in DOMAIN outcome.result.health_details :
               outcome.result.health_details[k] = 0

\* a task table with rows of which the query keeps none, answered through
\* _calculate_base_metrics
C5_Witness ==
    /\ ResolvesSprint
    /\ NoTaskMatches
    /\ tasks.rows # <<>>
    /\ ReturnedResult
    /\ DOMAIN outcome.result.health_details # {}

\* C6: of two calls on the same tables, sprints and areas, the one with the larger
\* time frame returns a done hour-sum and a done task count that are not smaller.
C6_DoneMonotoneInTimeFrame ==
    [][(/\ call.kind = "call"
        /\ call'.kind = "call"
        /\ call'.selected_sprints = call.selected_sprints
        /\ call'.selected_areas = call.selected_areas
        /\ call.time_frame <= call'.time_frame
        /\ outcome.kind = "returned"
        /\ outcome'.kind = "returned")
       => (/\ outcome.result.done <= outcome'.result.done
           /\ outcome.done_count <= outcome'.done_count)]_vars

\* a call at time frame 100 whose done sum is larger than the one the same query
\* has at time frame 0, which is itself above 0
C6_Witness ==
    /\ call.kind = "call"
    /\ call.time_frame = 100
    /\ ReturnedResult
    /\ LET at_start == calculate_metrics(tasks, sprints, history_df,
                                         call.selected_sprints, call.selected_areas, 0)
       IN  /\ at_start.kind = "returned"
           /\ 0 < at_start.result.done
           /\ at_start.result.done < outcome.result.done
           /\ at_start.done_count < outcome.done_count

C8_TablesUnchanged ==
    [][tasks' = tasks /\ sprints' = sprints /\ history_df' = history_df]_vars

\* a call that returned after normalising and lower-casing rows of its copy that
\* the caller's table still holds as loaded
C8_Witness ==
    /\ call.kind = "call"
    /\ ReturnedResult
    /\ LET written == working_frame(tasks, sprints, call.selected_sprints,
                                    call.selected_areas, call.time_frame)
       IN  /\ written.rows # <<>>
           /\ \E i \in DOMAIN written.rows : written.rows[i] \notin Range(tasks.rows)

\* the rows of the caller's table that the query of the last call keeps
MatchingRows == SelectSeq(tasks.rows, MatchesQuery)

\* seconds of estimation in rows, a missing estimation counting as 0
RECURSIVE SecondsIn(_)
SecondsIn(rows) ==
    IF rows = <<>> THEN 0
    ELSE (IF Head(rows).estimation = NaNNumber THEN 0 ELSE Head(rows).estimation)
         + SecondsIn(Tail(rows))

InitialSeconds ==
    SecondsIn(SelectSeq(MatchingRows,
        LAMBDA t : t.create_date <= ResolvedSprint.sprint_start_date + 2 * UnitsPerDay))

AddedSeconds ==
    SecondsIn(SelectSeq(MatchingRows,
        LAMBDA t : t.create_date > ResolvedSprint.sprint_start_date + 2 * UnitsPerDay))

\* C11: backlog_changes is 100 * (estimation of the tasks created later than
\* sprint_start + 2 days) / (estimation of the tasks created up to then), to one
\* decimal place, and 0.0 when the latter sum is 0, whatever the former is.
C11_BacklogChangesRatio ==
    (ResolvesSprint /\ ReturnedResult) =>
        IF InitialSeconds = 0
        THEN outcome.result.backlog_changes = 0
        ELSE Abs(2 * outcome.result.backlog_changes * InitialSeconds - 2000 * AddedSeconds)
                 <= InitialSeconds

\* a result with initial and added estimation whose ratio is not a whole percentage
C11_Witness ==
    /\ ResolvesSprint
    /\ ReturnedResult
    /\ InitialSeconds > 0
    /\ AddedSeconds > 0
    /\ outcome.result.backlog_changes > 0
    /\ outcome.result.backlog_changes % 10 # 0

\* a result for tasks that were all created later than sprint_start + 2 days
C11_ZeroInitialReached ==
    /\ ResolvesSprint
    /\ ReturnedResult
    /\ InitialSeconds = 0
    /\ AddedSeconds > 0

HistoryMissing ==
    history_df.rows = <<>> \/ "history_property_name" \notin history_df.columns

\* C12: a call that resolves a sprint returns, without raising, empty
\* excluded_tasks and added_tasks and a status_transitions of zeros with an empty
\* daily_distribution when the history table is empty or lacks
\* history_property_name, and blocked_tasks 0.0 when the tasks table has no links
\* column.
C12_MissingOptionalData ==
    ResolvesSprint =>
        /\ HistoryMissing =>
              /\ ReturnedResult
              /\ outcome.result.excluded_tasks = <<>>
              /\ outcome.result.added_tasks = <<>>
              /\ outcome.result.status_transitions =
                     [last_day_completion_percentage |-> RatInt(0),
                      daily_distribution |-> <<>>,
                      transition_evenness |-> RatInt(0)]
        /\ "links" \notin tasks.columns =>
              /\ ReturnedResult
              /\ outcome.result.blocked_tasks = 0

\* a call on a tasks table without links and a history table with rows but
\* without history_property_name, that counted tasks in progress
C12_Witness ==
    /\ ResolvesSprint
    /\ "links" \notin tasks.columns
    /\ history_df.rows # <<>>
    /\ "history_property_name" \notin history_df.columns
    /\ ReturnedResult
    /\ outcome.result.in_progress > 0

\* C13: calculate_metrics raises an input-validation error, and returns no
\* result, when the sprint table is empty, when no sprint has a selected name, and
\* when the selected area set is empty.
C13_InvalidSelectionsRaise ==
    (/\ call.kind = "call"
     /\ \/ sprints = <<>>
        \/ ~ResolvesSprint
        \/ call.selected_areas = {})
    => outcome.kind = "raised"

\* text.endswith(suffix) and text.startswith(prefix) on the vocabulary of the model
SuffixesOf ==
    ("S1 -> <empty>" :> {"-> <empty>"}) @@ ("s1 -> <empty>" :> {"-> <empty>"})

PrefixesOf ==
    ("<empty> -> S1" :> {"<empty> ->"}) @@ ("<empty> -> s1" :> {"<empty> ->"})

EndsIn(text, suffix) == text \in DOMAIN SuffixesOf /\ suffix \in SuffixesOf[text]

StartsWith(text, prefix) == text \in DOMAIN PrefixesOf /\ prefix \in PrefixesOf[text]

\* the sprint-field events of calendar day d, dated within the resolved sprint,
\* whose entity is a row of the subset the query keeps
SprintEventsOn(d) ==
    {i \in DOMAIN history_df.rows :
        /\ history_df.rows[i].history_property_name = "Sprint"
        /\ history_df.rows[i].history_date >= ResolvedSprint.sprint_start_date
        /\ history_df.rows[i].history_date <= ResolvedSprint.sprint_end_date
        /\ history_df.rows[i].history_date \div UnitsPerDay = d
        /\ history_df.rows[i].entity_id \in ids_of(MatchingRows)}

RECURSIVE SecondsOfEvents(_)
SecondsOfEvents(events) ==
    IF events = {} THEN 0
    ELSE LET i == CHOOSE x \in events : TRUE
         IN  SecondsIn(SelectSeq(MatchingRows,
                 LAMBDA t : t.entity_id = history_df.rows[i].entity_id))
             + SecondsOfEvents(events \ {i})

\* what the day's entry of a per-day table must hold for the counted events
DayEntryIs(table, d, events) ==
    IF events = {} THEN d \notin DOMAIN table
    ELSE /\ d \in DOMAIN table
         /\ table[d].count = Cardinality(events)
         /\ table[d].hours = Rat(SecondsOfEvents(events), SecondsPerHour)

SprintDays == 0 .. 6

\* C23: among the sprint-field history events dated within [sprint_start,
\* sprint_end] whose entity is in the task table, the exclusions of a day are
\* exactly the events whose change ends in "-> <empty>" and the additions exactly
\* those whose change starts with "<empty> ->"; each adds 1 to the count and the
\* task's estimation / 3600 to the hours of its calendar date.
C23_SprintFieldChangesCounted ==
    (ResolvesSprint /\ ReturnedResult /\ tasks.rows # <<>> /\ ~HistoryMissing) =>
        \A d \in SprintDays :
            /\ DayEntryIs(outcome.result.excluded_tasks, d,
                   {i \in SprintEventsOn(d) :
                       EndsIn(history_df.rows[i].history_change, "-> <empty>")})
            /\ DayEntryIs(outcome.result.added_tasks, d,
                   {i \in SprintEventsOn(d) :
                       StartsWith(history_df.rows[i].history_change, "<empty> ->")})

\* what the last call returns when the resolved sprint is the only row of the
\* sprint table and the only name selected
ResolvedSprintAlone ==
    calculate_metrics(tasks, <<ResolvedSprint>>, history_df,
                      <<ResolvedSprint.sprint_name>>, call.selected_areas, call.time_frame)

\* the names of the last call's selection, in the opposite order
ReversedSelection ==
    [i \in DOMAIN call.selected_sprints |->
        call.selected_sprints[Len(call.selected_sprints) + 1 - i]]

\* C26: when several sprint names are selected, every metric is computed from
\* exactly one sprint, the first row of the sprint table whose name is selected:
\* the result is the one that sprint gives alone, and the same names selected
\* in the opposite order give the same result.
C26_FirstTableRowAmongSelected ==
    (call.kind = "call" /\ Len(call.selected_sprints) > 1 /\ ResolvesSprint)
    => /\ outcome = ResolvedSprintAlone
       /\ outcome = calculate_metrics(tasks, sprints, history_df, ReversedSelection,
                                      call.selected_areas, call.time_frame)

\* a call that selects S2 before S1 on a table that holds S1 before S2, both
\* with tasks, and returns what S1 gives and not what S2 gives
C26_Witness ==
    /\ call.kind = "call"
    /\ call.selected_sprints = <<"S2", "S1">>
    /\ sprints = <<SprintS1, SprintS2>>
    /\ ReturnedResult
    /\ outcome.result.done > 0
    /\ LET other == calculate_metrics(tasks, <<SprintS2>>, history_df, <<"S2">>,
                                      call.selected_areas, call.time_frame)
       IN  other.kind = "returned" /\ other.result.done > 0 /\ other # outcome

\* the task sets a sprint of the same name and dates may have
SprintTaskSets == {{}, {2, 3, 5}}

\* status_transitions of the query on the resolved sprint with another task set,
\* other areas and another time frame
TransitionsOfQuery(entity_ids, selected_areas, time_frame) ==
    calculate_metrics(tasks, <<[ResolvedSprint EXCEPT !.entity_ids = entity_ids]>>,
                      history_df, <<ResolvedSprint.sprint_name>>,
                      selected_areas, time_frame).result.status_transitions

\* C27: for a non-empty task table, status_transitions depends only on the
\* history table and on the start and end dates of the sprint: every query on the
\* same sprint, whatever its selected areas, its time frame and the task set of
\* the sprint, returns the same status_transitions.
C27_TransitionsIgnoreTaskSubset ==
    (ResolvesSprint /\ ReturnedResult /\ tasks.rows # <<>>) =>
        \A entity_ids \in SprintTaskSets, selected_areas \in AreaSelections,
           time_frame \in TimeFrames :
            TransitionsOfQuery(entity_ids, selected_areas, time_frame)
                = outcome.result.status_transitions

\* a query whose filtered subset has no task at all and that still returns day
\* counts of status changes
C27_Witness ==
    /\ ResolvesSprint
    /\ ReturnedResult
    /\ tasks.rows # <<>>
    /\ NoTaskMatches
    /\ DOMAIN outcome.result.status_transitions.daily_distribution # {}

(***************************************************************************)
(* ApiSpec: GET /api/metrics, main.py lines 160-220, on a data_loader      *)
(* that holds the tables.  Every request is one step.                      *)
(***************************************************************************)
HTTPException(status_code, detail) ==
    [kind |-> "raised", error |-> "HTTPException", status_code |-> status_code,
     detail |-> detail]

Response(status_code, body) ==
    [kind |-> "response", status_code |-> status_code, body |-> body]

\* isinstance(e, ValueError) for what calculate_metrics raises
is_ValueError(e) ==
    e.error \in {"ValueError: No sprint data available",
                 "ValueError: No sprint found with names"}

\* Query(100, ge=0, le=100)
time_frame_accepted(time_frame) == 0 <= time_frame /\ time_frame <= 100

\* the body of the try block, lines 173-207: a result, or what it raised
get_metrics_try(selected_sprints, selected_areas, time_frame) ==
    IF selected_sprints = <<>> THEN HTTPException(422, "No sprints selected")
    ELSE IF selected_areas = {} THEN HTTPException(422, "No areas selected")
    ELSE LET sprint_info == matching_sprints(sprints, selected_sprints)
         IN  IF sprint_info = <<>>
             THEN HTTPException(404, "No data found for selected sprints")
             ELSE calculate_metrics(tasks, sprint_info, history_df,
                                    selected_sprints, selected_areas, time_frame)

\* the except clauses, lines 209-220: ValueError first, then Exception, of
\* which HTTPException is a subclass
get_metrics_except(raised) ==
    IF is_ValueError(raised) THEN HTTPException(422, raised.error)
    ELSE HTTPException(500, "Internal server error while calculating metrics")

\* an HTTPException leaving the handler becomes the response with its status
get_metrics(selected_sprints, selected_areas, time_frame) ==
    IF ~time_frame_accepted(time_frame) THEN Response(422, "validation error")
    ELSE IF ~data_loader.is_loaded
    THEN Response(503, "Service unavailable - data not loaded")
    ELSE LET tried == get_metrics_try(selected_sprints, selected_areas, time_frame)
         IN  IF tried.kind = "returned" THEN Response(200, tried.result)
             ELSE LET e == get_metrics_except(tried)
                  IN  Response(e.status_code, e.detail)

(***************************************************************************)
(* GET /api/plot-data/sprint-health-indicators, main.py lines 492-563.     *)
(***************************************************************************)
\* float('nan'): every comparison with it is False
NaNFloat == [n |-> 0, d |-> 0]

isnan(x) == x.d = 0

\* the largest k with k * k <= v
ISqrt(v) == CHOOSE k \in 0 .. (v + 1) : k * k <= v /\ v < (k + 1) * (k + 1)

SqrtScale == 100   \* square roots are kept to 1/SqrtScale

\* sqrt of a rational x >= 0
sqrt(x) == Rat(ISqrt((x.n * SqrtScale * SqrtScale) \div x.d), SqrtScale)

RECURSIVE SumOver(_, _)
SumOver(f, keys) ==
    IF keys = {} THEN RatInt(0)
    ELSE LET k == CHOOSE x \in keys : TRUE
         IN  RatAdd(f[k], SumOver(f, keys \ {k}))

\* Series.mean() of the day counts
mean(daily) == RatDiv(SumOver([k \in DOMAIN daily |-> RatInt(daily[k])], DOMAIN daily),
                      RatInt(Cardinality(DOMAIN daily)))

\* Series.std() (ddof = 1) of the day counts: NaN for a single day
std(daily) ==
    IF Cardinality(DOMAIN daily) < 2 THEN NaNFloat
    ELSE LET m == mean(daily)
             squares == [k \in DOMAIN daily |->
                            RatMul(RatSub(RatInt(daily[k]), m), RatSub(RatInt(daily[k]), m))]
         IN  sqrt(RatDiv(SumOver(squares, DOMAIN daily),
                         RatInt(Cardinality(DOMAIN daily) - 1)))

\* status_changes.groupby(history_date.dt.date).size()
RECURSIVE group_by_day(_, _)
group_by_day(changes, daily) ==
    IF changes = <<>> THEN daily
    ELSE LET day == date_of(Head(changes).history_date)
         IN  group_by_day(Tail(changes),
                 IF Head(changes).history_date = NaT THEN daily
                 ELSE DictPut(daily, day, DictGet(daily, day, 0) + 1))

\* transition_evenness of the handler, lines 530-531
indicator_evenness(day_counts) ==
    IF DOMAIN day_counts = {} THEN RatInt(0)
    ELSE LET deviation == std(day_counts)
         IN  IF isnan(deviation) THEN NaNFloat
             ELSE RatMul(RatInt(100),
                         RatSub(RatInt(1), RatDiv(deviation, mean(day_counts))))

\* the deductions with the caps of the penalty table: 20 for todo, 15 for
\* removed at one and a half points per percent
indicator_health_score_capped(todo_percentage, removed_percentage, transition_evenness, blocked_count, total_tasks) ==
    LET todo_penalty ==
            IF RatLt(RatInt(20), todo_percentage)
            THEN RatMin(RatInt(20), RatSub(todo_percentage, RatInt(20))) ELSE RatInt(0)
        removed_penalty ==
            IF RatLt(RatInt(10), removed_percentage)
            THEN RatMin(RatInt(15),
                        RatMul(RatSub(removed_percentage, RatInt(10)), Rat(3, 2)))
            ELSE RatInt(0)
        evenness_penalty ==
            IF ~isnan(transition_evenness) /\ RatLt(transition_evenness, RatInt(70))
            THEN RatMin(RatInt(25), RatSub(RatInt(70), transition_evenness)) ELSE RatInt(0)
        blocked_penalty ==
            IF blocked_count * 10 > total_tasks
            THEN RatMin(RatInt(25), RatSub(Rat(blocked_count * 100, total_tasks), RatInt(10)))
            ELSE RatInt(0)
    IN  RatMax(RatInt(0),
               RatSub(RatSub(RatSub(RatSub(RatInt(100), todo_penalty), removed_penalty),
                             evenness_penalty), blocked_penalty))

\* health_score of lines 542-557
indicator_health_score(todo_percentage, removed_percentage, transition_evenness, blocked_count, total_tasks) ==
    LET todo_penalty ==
            IF RatLt(RatInt(20), todo_percentage)
            THEN RatMin(RatInt(25), RatSub(todo_percentage, RatInt(20))) ELSE RatInt(0)
        removed_penalty ==
            IF RatLt(RatInt(10), removed_percentage)
            THEN RatMin(RatInt(25), RatSub(removed_percentage, RatInt(10))) ELSE RatInt(0)
        evenness_penalty ==
            IF ~isnan(transition_evenness) /\ RatLt(transition_evenness, RatInt(70))
            THEN RatMin(RatInt(25), RatSub(RatInt(70), transition_evenness)) ELSE RatInt(0)
        blocked_penalty ==
            IF blocked_count * 10 > total_tasks
            THEN RatMin(RatInt(25), RatSub(Rat(blocked_count * 100, total_tasks), RatInt(10)))
            ELSE RatInt(0)
    IN  RatMax(RatInt(0),
               RatSub(RatSub(RatSub(RatSub(RatInt(100), todo_penalty), removed_penalty),
                             evenness_penalty), blocked_penalty))

\* one pass of the loop over selected_sprints, lines 504-557, for a sprint that
\* has tasks in the selected areas
health_indicator(sprint_name, sprint_info, sprint_tasks) ==
    LET total_tasks == Len(sprint_tasks)
        todo_count == Len(SelectSeq(sprint_tasks,
            LAMBDA t : isin(str_lower(t.status), {"sozdano", "k vypolneniyu"})))
        removed_count == Len(SelectSeq(sprint_tasks,
            LAMBDA t : isin(str_lower(t.resolution), {"otkloneno", "otmeneno"})))
        completed_count == Len(SelectSeq(sprint_tasks,
            LAMBDA t : isin(str_lower(t.status), {"zakryto", "vypolneno"})))
        blocked_count == Len(SelectSeq(sprint_tasks, has_blocking_link))
        status_changes_of_tasks == SelectSeq(history_df.rows,
            LAMBDA h : /\ h.entity_id \in ids_of(sprint_tasks)
                       /\ h.history_property_name = "Status")
        transition_evenness == indicator_evenness(group_by_day(status_changes_of_tasks, EmptyDict))
        todo_percentage == Rat(todo_count * 100, total_tasks)
        removed_percentage == Rat(removed_count * 100, total_tasks)
    IN  [sprint_name |-> sprint_name,
         metrics |-> [todo_percentage |-> todo_percentage,
                      removed_percentage |-> removed_percentage,
                      transition_evenness |-> transition_evenness,
                      total_tasks |-> total_tasks,
                      completed_tasks |-> completed_count,
                      blocked_tasks |-> blocked_count],
         health_score |-> indicator_health_score(todo_percentage, removed_percentage,
                              transition_evenness, blocked_count, total_tasks)]

\* the loop: the list of indicators, or the exception that ended it
RECURSIVE health_indicators(_, _, _)
health_indicators(selected_sprints, selected_areas, result) ==
    IF selected_sprints = <<>> THEN Returned(result, 0)
    ELSE LET sprint_name == Head(selected_sprints)
             found == SelectSeq(sprints, LAMBDA r : r.sprint_name = sprint_name)
         IN  IF found = <<>> THEN Raised("IndexError: single positional indexer is out-of-bounds")
             ELSE LET sprint_tasks == SelectSeq(tasks.rows,
                          LAMBDA t : /\ t.entity_id \in found[1].entity_ids
                                     /\ t.area \in selected_areas)
                  IN  IF sprint_tasks = <<>>
                      THEN health_indicators(Tail(selected_sprints), selected_areas, result)
                      ELSE IF "links" \notin tasks.columns THEN Raised("KeyError: 'links'")
                      ELSE IF "entity_id" \notin history_df.columns
                      THEN Raised("KeyError: 'entity_id'")
                      ELSE health_indicators(Tail(selected_sprints), selected_areas,
                               Append(result,
                                      health_indicator(sprint_name, found[1], sprint_tasks)))

get_sprint_health_indicators(selected_sprints, selected_areas) ==
    LET tried == IF selected_sprints = <<>> \/ selected_areas = {}
                 THEN HTTPException(400, "Missing required parameters")
                 ELSE health_indicators(selected_sprints, selected_areas, <<>>)
    IN  IF tried.kind = "returned" THEN Response(200, tried.result)
        ELSE Response(500, tried.error)

Loaded == [is_loaded |-> TRUE, load_errors |-> <<>>]

NotLoaded == [is_loaded |-> FALSE, load_errors |-> <<"Data validation failed">>]

QuerySprints == {<<>>, <<"S1">>, <<"S2", "S1">>, <<"SX">>}
QueryAreas == {{}, {"A"}, {"A", "B"}}
QueryTimeFrames == {-1, 0, 50, 100, 101}

\* tables for the handlers: the default rows, none, and two small tables with
\* half of the tasks to do and half of them rejected and blocked
ApiTaskFrames ==
    {DefaultTasks,
     [columns |-> TaskColumns, rows |-> <<>>],
     [columns |-> TaskColumns, rows |-> RowsOf({1, 4}, TaskPool)],
     [columns |-> TaskColumns, rows |-> RowsOf({1, 8}, TaskPool)]}

InitApi ==
    /\ tasks \in ApiTaskFrames
    /\ sprints \in SprintFrames \ {<<>>}
    /\ history_df \in {DefaultHistory, NoHistory}
    /\ data_loader \in {Loaded, NotLoaded}
    /\ analyzer = None
    /\ call = NoCall
    /\ outcome = NoCall
    /\ repeat = FALSE
    /\ buckets = NoBuckets

GetMetrics(selected_sprints, selected_areas, time_frame) ==
    /\ call' = Call(selected_sprints, selected_areas, time_frame)
    /\ repeat' = (call = Call(selected_sprints, selected_areas, time_frame))
    /\ outcome' = get_metrics(selected_sprints, selected_areas, time_frame)
    /\ UNCHANGED <<tasks, sprints, history_df, buckets, data_loader, analyzer>>

GetSprintHealthIndicators(selected_sprints, selected_areas) ==
    /\ call' = [kind |-> "indicators", selected_sprints |-> selected_sprints,
                selected_areas |-> selected_areas]
    /\ repeat' = FALSE
    /\ outcome' = get_sprint_health_indicators(selected_sprints, selected_areas)
    /\ UNCHANGED <<tasks, sprints, history_df, buckets, data_loader, analyzer>>

NextApi ==
    \/ \E selected_sprints \in QuerySprints, selected_areas \in QueryAreas,
          time_frame \in QueryTimeFrames :
           GetMetrics(selected_sprints, selected_areas, time_frame)
    \/ \E selected_sprints \in QuerySprints, selected_areas \in QueryAreas :
           GetSprintHealthIndicators(selected_sprints, selected_areas)

ApiSpec == InitApi /\ [][NextApi]_vars

\* C14: with the data loaded, a request that selects no sprint is answered 422,
\* one that selects no area is answered 422, and one whose sprint names match
\* no sprint is answered with a 4xx status; none of them with a 5xx.
C14_ValidationFailuresAreClientFaults ==
    (/\ outcome.kind = "response"
     /\ call.kind = "call"
     /\ data_loader.is_loaded
     /\ time_frame_accepted(call.time_frame))
    => /\ call.selected_sprints = <<>> => outcome.status_code = 422
       /\ call.selected_areas = {} => outcome.status_code = 422
       /\ (\A i \in DOMAIN sprints : sprints[i].sprint_name \notin Range(call.selected_sprints))
              => (400 <= outcome.status_code /\ outcome.status_code <= 499)

MetricsResultFields ==
    {"todo", "in_progress", "done", "removed", "backlog_changes", "blocked_tasks",
     "excluded_tasks", "added_tasks", "status_transitions", "health_score",
     "health_details", "health_metrics"}

\* C15: every result calculate_metrics returns, for an empty tasks table and for a
\* non-empty one alike, has exactly the fields todo, in_progress, done, removed,
\* backlog_changes, blocked_tasks, excluded_tasks, added_tasks, status_transitions,
\* health_score, health_details and health_metrics.
C15_SameFieldsOnEveryPath ==
    ReturnedResult => DOMAIN outcome.result = MetricsResultFields

\* 100 * cutoff, for cutoff = sprint_start + (sprint_end - sprint_start) * time_frame / 100
CutoffTimes100 ==
    100 * ResolvedSprint.sprint_start_date
    + (ResolvedSprint.sprint_end_date - ResolvedSprint.sprint_start_date) * call.time_frame

\* the ids of the rows the time-frame filter of the last call kept
RetainedIds == ids_of(tasks_in_sprint(tasks, ResolvedSprint, call.time_frame).rows)

\* C16: of the tasks of the resolved sprint, the time-frame filter keeps exactly
\* those with create_date <= cutoff or update_date <= cutoff, a task without
\* update_date being kept exactly when create_date <= cutoff; at time_frame 100
\* the cutoff is the sprint end.
C16_TimeFrameFilter ==
    ResolvesSprint =>
        /\ \A i \in DOMAIN tasks.rows :
              LET t == tasks.rows[i]
              IN  t.entity_id \in ResolvedSprint.entity_ids =>
                     /\ t.update_date # NaT =>
                           (t.entity_id \in RetainedIds
                               <=> (\/ 100 * t.create_date <= CutoffTimes100
                                    \/ 100 * t.update_date <= CutoffTimes100))
                     /\ t.update_date = NaT =>
                           (t.entity_id \in RetainedIds
                               <=> 100 * t.create_date <= CutoffTimes100)
        /\ \A i \in DOMAIN tasks.rows :
              tasks.rows[i].entity_id \in RetainedIds
                  => tasks.rows[i].entity_id \in ResolvedSprint.entity_ids
        /\ call.time_frame = 100 => CutoffTimes100 = 100 * ResolvedSprint.sprint_end_date

\* a call before the end of the sprint that kept a task created after the cutoff
\* for its earlier update_date, and dropped a task without update_date that was
\* created after the cutoff
C16_Witness ==
    /\ ResolvesSprint
    /\ ReturnedResult
    /\ call.time_frame < 100
    /\ \E i \in DOMAIN tasks.rows :
          /\ tasks.rows[i].entity_id \in RetainedIds
          /\ 100 * tasks.rows[i].create_date > CutoffTimes100
    /\ \E i \in DOMAIN tasks.rows :
          /\ tasks.rows[i].entity_id \in ResolvedSprint.entity_ids
          /\ tasks.rows[i].update_date = NaT
          /\ tasks.rows[i].entity_id \notin RetainedIds

\* max(0, 100 * (1 - variance / ideal_daily)) of the returned daily_distribution,
\* with duration_days the whole days of the resolved sprint and at least 1
EvennessWithMinimumOneDay ==
    LET daily == outcome.result.status_transitions.daily_distribution
        span == ResolvedSprint.sprint_end_date - ResolvedSprint.sprint_start_date
        whole_days == span \div UnitsPerDay
        duration_days == IF whole_days < 1 THEN 1 ELSE whole_days
        ideal_daily == Rat(total_of(daily, "total_changes"), duration_days)
        variance == RatDiv(deviation_sum(daily, DOMAIN daily, ideal_daily),
                           RatInt(Cardinality(DOMAIN daily)))
    IN  RatMax(RatInt(0),
               RatMul(RatInt(100), RatSub(RatInt(1), RatDiv(variance, ideal_daily))))

\* C17: for every sprint with at least one status change, a sprint shorter than
\* one day included, transition_evenness is max(0, 100 * (1 - variance /
\* ideal_daily)) with ideal_daily = total_changes / duration_days and
\* duration_days the whole-day span of the sprint, at least 1.
C17_EvennessDurationAtLeastOneDay ==
    (/\ ResolvesSprint
     /\ ReturnedResult
     /\ DOMAIN outcome.result.status_transitions.daily_distribution # {})
    => outcome.result.status_transitions.transition_evenness = EvennessWithMinimumOneDay

\* C18: every health score of the sprint-health-indicators handler is max(0, 100 -
\* penalties) with a todo penalty of min(20, todo_percentage - 20) above 20 percent
\* and a removed penalty of min(15, (removed_percentage - 10) * 1.5) above 10
\* percent (the evenness and blocked deductions as the handler takes them).
C18_PenaltyCaps ==
    (call.kind = "indicators" /\ outcome.status_code = 200) =>
        \A i \in DOMAIN outcome.body :
            outcome.body[i].health_score =
                indicator_health_score_capped(
                    outcome.body[i].metrics.todo_percentage,
                    outcome.body[i].metrics.removed_percentage,
                    outcome.body[i].metrics.transition_evenness,
                    outcome.body[i].metrics.blocked_tasks,
                    outcome.body[i].metrics.total_tasks)

(***************************************************************************)
(* FaultSpec: calculate_metrics with an exception raised inside one of its *)
(* sub-steps, and the except clauses of crud.py that it meets on its way   *)
(* out: lines 396-410, 452-454 and 592-594.                                *)
(***************************************************************************)
SubSteps == {"none", "aggregator", "transitions", "health"}

\* _calculate_base_metrics when the named sub-step raises: the except clause of
\* calculate_sprint_health (396-410) returns its zero dict, the one of
\* _calculate_base_metrics (452-454) logs and raises again
base_metrics_with_fault(sprint_tasks, sprint_info, history, raising) ==
    IF raising \in {"aggregator", "transitions"}
    THEN Raised("Exception in " \o raising)
    ELSE LET result == _calculate_base_metrics(sprint_tasks, sprint_info, history)
         IN  IF raising = "health"
             THEN Returned([result EXCEPT !.health_score = ZeroHealth.score,
                                          !.health_details = ZeroHealth.details],
                           Len(done_tasks(base_metrics_frame(sprint_tasks))))
             ELSE Returned(result, Len(done_tasks(base_metrics_frame(sprint_tasks))))

\* calculate_metrics when the named sub-step raises; its own except clause
\* (592-594) logs and raises again
calculate_metrics_with_fault(tasks_df, sprint_rows, history, selected_sprints, selected_areas, time_frame, raising) ==
    IF sprint_rows = <<>> THEN Raised("ValueError: No sprint data available")
    ELSE LET found == matching_sprints(sprint_rows, selected_sprints)
         IN  IF found = <<>> THEN Raised("ValueError: No sprint found with names")
             ELSE IF tasks_df.rows = <<>> THEN Returned(ZeroMetrics, 0)
             ELSE base_metrics_with_fault(
                      sprint_tasks_of(tasks_df, found[1], selected_areas, time_frame),
                      found[1], history, raising)

InitFault ==
    /\ tasks \in ApiTaskFrames
    /\ sprints = <<SprintS1, SprintS2>>
    /\ history_df \in {DefaultHistory, NoHistory}
    /\ data_loader = Constructed
    /\ analyzer = None
    /\ call = NoCall
    /\ outcome = NoCall
    /\ repeat = FALSE
    /\ buckets = NoBuckets

CalculateMetricsWithFault(selected_sprints, selected_areas, time_frame, raising) ==
    /\ call' = [kind |-> "call", selected_sprints |-> selected_sprints,
                selected_areas |-> selected_areas, time_frame |-> time_frame,
                raising |-> raising]
    /\ repeat' = FALSE
    /\ outcome' = calculate_metrics_with_fault(tasks, sprints, history_df, selected_sprints,
                                               selected_areas, time_frame, raising)
    /\ UNCHANGED <<tasks, sprints, history_df, buckets, data_loader, analyzer>>

NextFault ==
    \E selected_sprints \in SprintSelections, selected_areas \in AreaSelections,
       time_frame \in TimeFrames, raising \in SubSteps :
        CalculateMetricsWithFault(selected_sprints, selected_areas, time_frame, raising)

FaultSpec == InitFault /\ [][NextFault]_vars

\* C19: when a sub-step of calculate_metrics (an aggregator, the transition
\* analysis, the health-score calculation) raises, calculate_metrics raises; it
\* does not return a result.
C19_SubStepFailuresPropagate ==
    (/\ call.kind = "call"
     /\ call.raising # "none"
     /\ ResolvesSprint
     /\ tasks.rows # <<>>)
    => outcome.kind = "raised"

(***************************************************************************)
(* LoaderSpec: DataLoader.load_data, models.py lines 78-383.  The tables   *)
(* read from the CSV files are the inputs of each load.                    *)
(***************************************************************************)
MaxLoads == 2   \* calls of load_data

\* a Python list and a Python set, told apart by isinstance
PyList(items) == [pytype |-> "list", items |-> items]
PySet(items) == [pytype |-> "set", items |-> items]
isinstance_list_or_set(x) == x.pytype \in {"list", "set"}
isinstance_set(x) == x.pytype = "set"

\* pd.DataFrame()
EmptyFrame == [columns |-> {}, rows |-> <<>>]

\* day 0 is a Sunday
DaysPerWeek == 7
Week == DaysPerWeek * UnitsPerDay
TwoWeeks == 2 * Week

\* the earliest and the latest of a column, NaT left out
column_values(rows, column) ==
    {rows[i][column] : i \in DOMAIN rows} \ {NaT}
column_min(rows, column) ==
    CHOOSE t \in column_values(rows, column) : \A u \in column_values(rows, column) : t <= u
column_max(rows, column) ==
    CHOOSE t \in column_values(rows, column) : \A u \in column_values(rows, column) : u <= t

\* pd.date_range(start, end, freq='2W'): from the first Sunday at or after
\* start, at the time of day of start, every second week up to end
RECURSIVE dates_from(_, _)
dates_from(t, end) == IF t > end THEN <<>> ELSE <<t>> \o dates_from(t + TwoWeeks, end)

date_range(start, end) ==
    LET weekday == date_of(start) % DaysPerWeek
        days_to_sunday == IF weekday = 0 THEN 0 ELSE DaysPerWeek - weekday
    IN  dates_from(start + days_to_sunday * UnitsPerDay, end)

\* tasks_df['links'].astype(str), line 122: a missing value becomes 'nan'
links_as_str(t) == [t EXCEPT !.links = IF t.links = NaN THEN "nan" ELSE t.links]

\* _load_tasks, lines 102-143
loaded_tasks(tasks_csv) ==
    IF "links" \in tasks_csv.columns
    THEN [tasks_csv EXCEPT !.rows = [i \in DOMAIN tasks_csv.rows |->
                                        links_as_str(tasks_csv.rows[i])]]
    ELSE tasks_csv

\* the sprints of one area, lines 158-186
RECURSIVE area_sprints(_, _, _, _)
area_sprints(area, area_tasks, sprint_dates, i) ==
    IF i + 1 > Len(sprint_dates) - 1 THEN <<>>
    ELSE LET sprint_start == sprint_dates[i + 1]
             sprint_end == sprint_dates[i + 2]
             sprint_tasks == SelectSeq(area_tasks,
                 LAMBDA t : /\ t.create_date # NaT
                            /\ t.create_date >= sprint_start
                            /\ t.create_date < sprint_end)
             row == [sprint_name |-> "Sprint " \o ToString(i + 1) \o " - " \o area,
                     sprint_start_date |-> sprint_start,
                     sprint_end_date |-> sprint_end,
                     entity_ids |-> PyList([k \in DOMAIN sprint_tasks |->
                                               sprint_tasks[k].entity_id]),
                     area |-> area]
         IN  (IF sprint_tasks = <<>> THEN <<>> ELSE <<row>>)
             \o area_sprints(area, area_tasks, sprint_dates, i + 1)

\* the loop over areas, in the order of their first appearance
RECURSIVE synthetic_sprints(_, _)
synthetic_sprints(task_rows, seen) ==
    LET rest == SelectSeq(task_rows, LAMBDA t : t.area \notin seen)
    IN  IF rest = <<>> THEN <<>>
        ELSE LET area == rest[1].area
                 area_tasks == SelectSeq(task_rows, LAMBDA t : t.area = area)
             IN  area_sprints(area, area_tasks,
                              date_range(column_min(area_tasks, "create_date"),
                                         column_max(area_tasks, "create_date")), 0)
                 \o synthetic_sprints(task_rows, seen \cup {area})

\* _load_sprints, lines 145-236, with no sprints.csv in the data directory: any
\* exception ends in an empty table with the required columns
load_sprints(tasks_df) ==
    IF tasks_df.rows = <<>> THEN <<>>
    ELSE IF "area" \notin tasks_df.columns \/ "create_date" \notin tasks_df.columns
    THEN <<>>
    ELSE IF \E i \in DOMAIN tasks_df.rows :
                \A j \in DOMAIN tasks_df.rows :
                    tasks_df.rows[j].area = tasks_df.rows[i].area
                        => tasks_df.rows[j].create_date = NaT
    THEN <<>>
    ELSE synthetic_sprints(tasks_df.rows, {})

\* _validate_loaded_data, lines 310-383
validate_loaded_data(tasks_df, sprint_rows, history) ==
    /\ tasks_df.rows # <<>>
    /\ sprint_rows # <<>>
    /\ history.rows # <<>>
    /\ {"status", "resolution"} \subseteq tasks_df.columns
    /\ {"entity_id", "status", "area", "estimation"} \subseteq tasks_df.columns
    /\ {"sprint_name", "sprint_start_date", "sprint_end_date", "entity_ids"}
           \subseteq DOMAIN sprint_rows[1]
    /\ {"entity_id", "history_property_name", "history_date", "history_change"}
           \subseteq history.columns
    /\ \A i \in DOMAIN sprint_rows : isinstance_set(sprint_rows[i].entity_ids)

\* is_loaded and load_errors after the validation, lines 86-94
after_validation(loader, valid) ==
    IF valid THEN [loader EXCEPT !.is_loaded = TRUE]
    ELSE [is_loaded |-> FALSE,
          load_errors |-> Append(loader.load_errors, "Data validation failed")]

LoaderTask(id, create_date, area) ==
    Task(id, "Sozdano", NaN, 3600, create_date, NaT, area, NaN)

LoaderTaskPool ==
    <<LoaderTask(1, At(0, 0), "A"),
      LoaderTask(2, At(3, 1), "A"),
      LoaderTask(3, At(14, 0), "A"),
      LoaderTask(4, At(16, 0), "B"),
      LoaderTask(5, At(30, 0), "B"),
      LoaderTask(6, At(1, 0), "B")>>

TaskFiles ==
    {[columns |-> TaskColumns, rows |-> RowsOf(ids, LoaderTaskPool)] :
        ids \in SubsetsUpTo(DOMAIN LoaderTaskPool, MaxTasks)}
    \cup {[columns |-> TaskColumns \ {"area"},
           rows |-> <<[f \in TaskColumns \ {"area"} |-> LoaderTaskPool[1][f]]>>]}

HistoryFiles ==
    {DefaultHistory, [columns |-> HistoryColumns, rows |-> <<>>], HistoryWithoutProperty}

InitLoader ==
    /\ tasks = EmptyFrame
    /\ sprints = <<>>
    /\ history_df = EmptyFrame
    /\ data_loader = Constructed
    /\ analyzer = None
    /\ call = NoCall
    /\ outcome = NoCall
    /\ repeat = FALSE
    /\ buckets = NoBuckets

LoadsSoFar == IF call.kind = "load_data" THEN call.count ELSE 0

\* load_data with the CSV files in place
LoadData(tasks_csv, history_csv) ==
    /\ LoadsSoFar < MaxLoads
    /\ call' = [kind |-> "load_data", count |-> LoadsSoFar + 1]
    /\ repeat' = (call.kind = "load_data")
    /\ tasks' = loaded_tasks(tasks_csv)
    /\ sprints' = load_sprints(loaded_tasks(tasks_csv))
    /\ history_df' = history_csv
    /\ data_loader' = after_validation(data_loader,
           validate_loaded_data(loaded_tasks(tasks_csv),
                                load_sprints(loaded_tasks(tasks_csv)), history_csv))
    /\ outcome' = [kind |-> "returned"]
    /\ UNCHANGED <<buckets, analyzer>>

\* load_data with the tasks file missing: read_csv raises, lines 96-100
LoadDataWithoutFiles ==
    /\ LoadsSoFar < MaxLoads
    /\ call' = [kind |-> "load_data", count |-> LoadsSoFar + 1]
    /\ repeat' = (call.kind = "load_data")
    /\ data_loader' = [is_loaded |-> FALSE,
                       load_errors |-> Append(data_loader.load_errors, "FileNotFoundError")]
    /\ outcome' = Raised("FileNotFoundError")
    /\ UNCHANGED <<tasks, sprints, history_df, buckets, analyzer>>

NextLoader ==
    \/ \E tasks_csv \in TaskFiles, history_csv \in HistoryFiles :
           LoadData(tasks_csv, history_csv)
    \/ LoadDataWithoutFiles

LoaderSpec == InitLoader /\ [][NextLoader]_vars

\* C20: after load_data has returned on non-empty task and history data with
\* the required columns, is_loaded is true and load_errors is empty.
C20_LoadedDataIsAccepted ==
    (/\ call.kind = "load_data"
     /\ call.count = 1
     /\ outcome.kind = "returned"
     /\ tasks.rows # <<>>
     /\ history_df.rows # <<>>
     /\ {"entity_id", "status", "area", "estimation"} \subseteq tasks.columns
     /\ {"entity_id", "history_property_name", "history_date", "history_change"}
            \subseteq history_df.columns)
    => (data_loader.is_loaded /\ data_loader.load_errors = <<>>)

status_categories ==
    ("K vypolneniyu" :> "todo") @@ ("Sozdano" :> "todo") @@
    ("V rabote" :> "in_progress") @@ ("V protsesse" :> "in_progress") @@
    ("Na proverke" :> "in_progress") @@
    ("Sdelano" :> "done") @@ ("Zakryto" :> "done") @@
    ("Vypolneno" :> "done") @@ ("Gotovo" :> "done") @@
    ("Otkloneno" :> "removed") @@ ("Otmeneno initsiatorom" :> "removed") @@
    ("Dublikat" :> "removed") @@ ("Otklonen ispolnitelem" :> "removed")

\* status_categories.get(status, 'todo')
category_of(status) ==
    IF status \in DOMAIN status_categories THEN status_categories[status] ELSE "todo"

\* split_history_change on the vocabulary of the model: the stripped text
\* after ' -> '
NewValueOf ==
    ("Sozdano -> V rabote" :> "V rabote") @@
    ("V rabote -> Zakryto" :> "Zakryto") @@
    ("V rabote -> Testirovanie" :> "Testirovanie") @@
    ("V rabote -> Zaversheno" :> "Zaversheno") @@
    ("Zakryto -> Pereotkryto" :> "Pereotkryto") @@
    ("<empty> -> S1" :> "S1") @@ ("S1 -> <empty>" :> "<empty>") @@
    ("S1 -> S2" :> "S2") @@
    ("S1 -> <empty> " :> "<empty>") @@ (" <empty> -> S1" :> "S1")

split_history_change(change) ==
    IF change \in DOMAIN NewValueOf THEN NewValueOf[change] ELSE str_strip(change)

\* _get_sprint_tasks, lines 291-311
get_sprint_tasks(entities_df, entity_ids) ==
    SelectSeq(entities_df.rows, LAMBDA t : t.entity_id \in entity_ids)

StateCounts(todo, in_progress, done, removed) ==
    [todo |-> todo, in_progress |-> in_progress, done |-> done, removed |-> removed]

\* the status changes of the sprint's tasks up to the date, lines 564-568
status_changes_up_to(sprint_tasks, history, date) ==
    SelectSeq(history.rows,
        LAMBDA h : /\ \E i \in DOMAIN sprint_tasks : sprint_tasks[i].entity_id = h.entity_id
                   /\ h.history_property_name \in {"Status", "status"}
                   /\ h.history_date # NaT
                   /\ h.history_date <= date)

\* sort_values('history_date').groupby('entity_id').last(): the row of the
\* latest date, and of two rows of one date the later one
latest_status_row(changes, entity_id) ==
    LET own == {i \in DOMAIN changes : changes[i].entity_id = entity_id}
        last == CHOOSE i \in own :
                    \A j \in own : \/ changes[j].history_date < changes[i].history_date
                                   \/ /\ changes[j].history_date = changes[i].history_date
                                      /\ j <= i
    IN  changes[last]

\* the category a task is counted in, lines 590-625
counted_category(task, changes) ==
    IF \E i \in DOMAIN changes : changes[i].entity_id = task.entity_id
    THEN LET status == split_history_change(latest_status_row(changes, task.entity_id).history_change)
         IN  IF status = "" THEN "todo" ELSE category_of(status)
    ELSE IF task.status = NaN THEN "todo" ELSE category_of(str_strip(task.status))

\* the number of tasks counted in a category: one for each row of
\* latest_statuses, whose entities are rows of sprint_tasks, and one for each
\* unchanged task (entity ids are unique in a tasks table)
count_in(category, sprint_tasks, changes) ==
    Cardinality({i \in DOMAIN sprint_tasks :
                    counted_category(sprint_tasks[i], changes) = category})

\* _get_tasks_state_for_date, lines 560-632
get_tasks_state_for_date(sprint_tasks, history, date) ==
    IF ~({"entity_id", "history_property_name", "history_date"} \subseteq history.columns)
    THEN StateCounts(0, 0, 0, 0)
    ELSE LET changes == status_changes_up_to(sprint_tasks, history, date)
         IN  IF changes = <<>> THEN StateCounts(0, 0, 0, 0)
             ELSE StateCounts(count_in("todo", sprint_tasks, changes),
                              count_in("in_progress", sprint_tasks, changes),
                              count_in("done", sprint_tasks, changes),
                              count_in("removed", sprint_tasks, changes))

\* Series.sum() of the estimations, missing values skipped
RECURSIVE nansum_estimation(_)
nansum_estimation(rows) ==
    IF rows = <<>> THEN 0
    ELSE to_numeric_fillna(Head(rows).estimation) + nansum_estimation(Tail(rows))

\* count and hours of a selection of tasks, lines 334-337 and 352-355
CountAndEstimation(rows) ==
    [count |-> Len(rows), estimation |-> Rat(nansum_estimation(rows), SecondsPerHour)]

\* _get_added_tasks_for_date, lines 331-337
get_added_tasks_for_date(sprint_tasks, date) ==
    CountAndEstimation(SelectSeq(sprint_tasks,
        LAMBDA t : t.create_date # NaT /\ date_of(t.create_date) = date_of(date)))

\* _get_removed_tasks_for_date, lines 339-355
get_removed_tasks_for_date(sprint_tasks, history, date) ==
    LET removed_changes == SelectSeq(history.rows,
            LAMBDA h : /\ \E i \in DOMAIN sprint_tasks : sprint_tasks[i].entity_id = h.entity_id
                       /\ h.history_property_name = "resolution"
                       /\ h.history_date # NaT
                       /\ date_of(h.history_date) = date_of(date)
                       /\ isin(str_lower(split_history_change(h.history_change)),
                               removed_resolutions))
    IN  CountAndEstimation(SelectSeq(sprint_tasks,
            LAMBDA t : \E k \in DOMAIN removed_changes :
                           removed_changes[k].entity_id = t.entity_id))

\* the entry of one day, lines 527-549; new_value is a column of the history
\* only when history_change is one
day_metrics(sprint_tasks, history, date) ==
    IF {"entity_id", "history_property_name", "history_date", "history_change"}
           \subseteq history.columns
    THEN LET tasks_state == get_tasks_state_for_date(sprint_tasks, history, date)
         IN  [date |-> date_of(date),
              todo_count |-> tasks_state.todo,
              in_progress_count |-> tasks_state.in_progress,
              done_count |-> tasks_state.done,
              added_tasks |-> get_added_tasks_for_date(sprint_tasks, date),
              removed_tasks |-> get_removed_tasks_for_date(sprint_tasks, history, date)]
    ELSE [date |-> date_of(date), todo_count |-> 0, in_progress_count |-> 0,
          done_count |-> 0,
          added_tasks |-> [count |-> 0, estimation |-> RatInt(0)],
          removed_tasks |-> [count |-> 0, estimation |-> RatInt(0)]]

\* _calculate_daily_metrics, lines 512-558: one entry for every day from
\* sprint_start while the date is not after sprint_end, in the order of the days
RECURSIVE calculate_daily_metrics(_, _, _, _)
calculate_daily_metrics(sprint_tasks, history, current_date, sprint_end) ==
    IF current_date = NaT \/ sprint_end = NaT \/ current_date > sprint_end THEN <<>>
    ELSE <<day_metrics(sprint_tasks, history, current_date)>>
         \o calculate_daily_metrics(sprint_tasks, history,
                                    current_date + UnitsPerDay, sprint_end)

\* _filter_metrics_by_timepoint, lines 422-434
filter_metrics_by_timepoint(daily_metrics, time_point) ==
    SubSeq(daily_metrics, 1, (time_point * Len(daily_metrics)) \div 100)

(***************************************************************************)
(* SprintHealthCalculator, new/sprint_health_calculator.py.  Scores are    *)
(* exact rationals; sprint_tasks is a frame [columns, rows] and            *)
(* daily_metrics the sequence of the day entries in the order of the dict. *)
(***************************************************************************)
DEFAULT_SCORE == Rat(7, 10)

\* max(0, 1 - value / allowed)
score_within(value, allowed) ==
    RatMax(RatInt(0), RatSub(RatInt(1), RatDiv(value, RatInt(allowed))))

completed_statuses ==
    {"sdelano", "zakryto", "vypolneno", "gotovo", "done", "completed", "closed", "ready"}

is_completed(t) == isin(str_strip(str_lower(t.status)), completed_statuses)

\* _calculate_todo_percentage, lines 354-369
calculate_todo_percentage(sprint_tasks) ==
    LET todo_rows == SelectSeq(sprint_tasks.rows,
                         LAMBDA t : isin(str_lower(t.status), {"k vypolneniyu", "sozdano"}))
        total_estimation == nansum_estimation(sprint_tasks.rows)
    IN  IF sprint_tasks.rows = <<>> THEN RatInt(0)
        ELSE IF "estimation" \notin sprint_tasks.columns
        THEN Rat(Len(todo_rows) * 100, Len(sprint_tasks.rows))
        ELSE IF total_estimation = 0 THEN RatInt(0)
        ELSE Rat(nansum_estimation(todo_rows) * 100, total_estimation)

\* _calculate_removed_percentage, lines 371-378
calculate_removed_percentage(sprint_tasks) ==
    LET removed_rows == SelectSeq(sprint_tasks.rows,
                            LAMBDA t : isin(str_lower(t.resolution), removed_resolutions))
    IN  IF sprint_tasks.rows = <<>> THEN RatInt(0)
        ELSE Rat(Len(removed_rows) * 100, Len(sprint_tasks.rows))

\* _calculate_backlog_change, lines 384-392, with the midnight of the first
\* day of daily_metrics as sprint_start
calculate_backlog_change(sprint_tasks, start_day) ==
    LET initial_tasks == SelectSeq(sprint_tasks.rows,
            LAMBDA t : t.create_date # NaT /\ t.create_date <= At(start_day, 0))
        added_tasks == SelectSeq(sprint_tasks.rows,
            LAMBDA t : t.create_date # NaT /\ t.create_date > At(start_day, 0))
    IN  IF nansum_estimation(initial_tasks) = 0 THEN RatInt(0)
        ELSE Rat(nansum_estimation(added_tasks) * 100, nansum_estimation(initial_tasks))

\* np.mean and np.std (ddof = 0) of a sequence of counts
np_mean(values) ==
    RatDiv(SumOver([k \in DOMAIN values |-> RatInt(values[k])], DOMAIN values),
           RatInt(Len(values)))

np_std(values) ==
    LET m == np_mean(values)
        squares == [k \in DOMAIN values |->
                       RatMul(RatSub(RatInt(values[k]), m), RatSub(RatInt(values[k]), m))]
    IN  sqrt(RatDiv(SumOver(squares, DOMAIN values), RatInt(Len(values))))

\* done_count + in_progress_count of every day
daily_velocities(daily_metrics) ==
    [k \in DOMAIN daily_metrics |->
        daily_metrics[k].done_count + daily_metrics[k].in_progress_count]

\* _calculate_status_uniformity, lines 208-221
status_uniformity_score(daily_metrics) ==
    IF Len(daily_metrics) <= 1 THEN DEFAULT_SCORE
    ELSE LET velocities == daily_velocities(daily_metrics)
         IN  RatMax(RatInt(0),
                    RatSub(RatInt(1),
                           RatDiv(np_std(velocities),
                                  RatMul(RatMax(RatAbs(np_mean(velocities)), RatInt(1)),
                                         RatInt(2)))))

\* _calculate_completion_rate, lines 223-238
calculate_completion_rate(sprint_tasks) ==
    IF "status" \notin sprint_tasks.columns \/ sprint_tasks.rows = <<>> THEN DEFAULT_SCORE
    ELSE Rat(Len(SelectSeq(sprint_tasks.rows, is_completed)), Len(sprint_tasks.rows))

\* _calculate_burndown_adherence, lines 240-252: np.linspace(n, 0, days) is
\* n - i * n / (days - 1); without tasks the quotient is 0 / 0 and max(0, nan)
\* is 0
calculate_burndown_adherence(sprint_tasks, daily_metrics) ==
    LET n == Len(sprint_tasks.rows)
        days == Len(daily_metrics)
        diff == [k \in DOMAIN daily_metrics |->
                    RatAbs(RatSub(RatInt(daily_metrics[k].todo_count
                                         + daily_metrics[k].in_progress_count),
                                  RatSub(RatInt(n), Rat((k - 1) * n, days - 1))))]
        burndown_diff == RatDiv(SumOver(diff, DOMAIN daily_metrics), RatInt(days))
    IN  IF days <= 1 THEN DEFAULT_SCORE
        ELSE IF n = 0 THEN RatInt(0)
        ELSE RatMax(RatInt(0),
                    RatSub(RatInt(1), RatDiv(burndown_diff, Rat(3 * n, 4))))

\* processing_time in days, sprint_health.py lines 279-284
processing_time(t) ==
    IF t.create_date = NaT \/ t.update_date = NaT THEN NaNFloat
    ELSE IF t.update_date < t.create_date THEN RatInt(0)
    ELSE Rat(t.update_date - t.create_date, UnitsPerDay)

\* _calculate_task_aging, lines 272-298: the mean skips missing values and
\* is NaN when every value is missing
calculate_task_aging(sprint_tasks) ==
    LET completed == SelectSeq(sprint_tasks.rows, is_completed)
        timed == SelectSeq(completed, LAMBDA t : ~isnan(processing_time(t)))
        avg_age == RatDiv(SumOver([k \in DOMAIN timed |-> processing_time(timed[k])],
                                  DOMAIN timed),
                          RatInt(Len(timed)))
    IN  IF "processing_time" \notin sprint_tasks.columns THEN DEFAULT_SCORE
        ELSE IF completed = <<>> THEN DEFAULT_SCORE
        ELSE IF timed = <<>> THEN Rat(3, 10)
        ELSE IF RatLe(avg_age, RatInt(7)) THEN RatInt(1)
        ELSE IF RatLe(avg_age, RatInt(30))
        THEN RatMax(Rat(3, 10),
                    RatSub(RatInt(1), RatDiv(RatSub(avg_age, RatInt(7)), RatInt(23))))
        ELSE Rat(3, 10)

\* _calculate_velocity_stability, lines 300-331
calculate_velocity_stability(daily_metrics) ==
    LET velocities == daily_velocities(daily_metrics)
        cv == RatDiv(np_std(velocities), np_mean(velocities))
    IN  IF Len(daily_metrics) <= 1 THEN DEFAULT_SCORE
        ELSE IF \A k \in DOMAIN velocities : velocities[k] = 0 THEN DEFAULT_SCORE
        ELSE IF RatLe(cv, Rat(2, 10)) THEN RatInt(1)
        ELSE IF RatLe(cv, Rat(8, 10))
        THEN RatMax(Rat(3, 10),
                    RatSub(RatInt(1), RatDiv(RatSub(cv, Rat(2, 10)), Rat(6, 10))))
        ELSE Rat(3, 10)

\* the component scores, lines 44-171, for tasks read without an assignee
\* column (collaboration and distribution are then 0.7) and with the
\* resolution column, if any, read as text
health_components(sprint_tasks, daily_metrics) ==
    [todo_score |-> score_within(calculate_todo_percentage(sprint_tasks), 15),
     removed_score |->
         IF "resolution" \in sprint_tasks.columns
         THEN score_within(calculate_removed_percentage(sprint_tasks), 15)
         ELSE DEFAULT_SCORE,
     backlog_score |->
         IF daily_metrics = <<>> THEN DEFAULT_SCORE
         ELSE score_within(calculate_backlog_change(sprint_tasks, daily_metrics[1].date), 30),
     uniformity_score |-> status_uniformity_score(daily_metrics),
     completion_score |-> calculate_completion_rate(sprint_tasks),
     burndown_score |-> calculate_burndown_adherence(sprint_tasks, daily_metrics),
     collaboration_score |-> DEFAULT_SCORE,
     aging_score |-> calculate_task_aging(sprint_tasks),
     distribution_score |-> DEFAULT_SCORE,
     velocity_score |-> calculate_velocity_stability(daily_metrics)]

\* the weights list of calculate_health_scores, lines 57-171; parameters is
\* read at lines 27-31 and used nowhere
applied_weights(parameters) ==
    [todo_score |-> Rat(10, 100), removed_score |-> Rat(8, 100),
     backlog_score |-> Rat(12, 100), uniformity_score |-> Rat(18, 100),
     completion_score |-> Rat(20, 100), burndown_score |-> Rat(12, 100),
     collaboration_score |-> Rat(5, 100), aging_score |-> Rat(5, 100),
     distribution_score |-> Rat(5, 100), velocity_score |-> Rat(5, 100)]

\* sum(score * weight for score, weight in zip(scores, weights)) / total_weight
weighted_score(components, weights) ==
    RatDiv(SumOver([k \in DOMAIN components |-> RatMul(components[k], weights[k])],
                   DOMAIN components),
           SumOver(weights, DOMAIN weights))

\* calculate_health_scores, lines 16-206, without the 'advanced' score
health_scores_of(components, weights) ==
    [original |-> weighted_score(components, weights), components |-> components]

calculate_health_scores(sprint_tasks, daily_metrics, parameters) ==
    health_scores_of(health_components(sprint_tasks, daily_metrics),
                     applied_weights(parameters))

(***************************************************************************)
(* analyze_sprint_health, new/sprint_health.py lines 357-420.  An optional *)
(* argument is a sequence: <<>> for None, <<v>> for the value v.           *)
(***************************************************************************)
HealthParameters(max_todo, max_removed, max_backlog, uniformity, backlog, completion, quality) ==
    [max_todo_percentage |-> max_todo, max_removed_percentage |-> max_removed,
     max_backlog_change |-> max_backlog, uniformity_weight |-> uniformity,
     backlog_weight |-> backlog, completion_weight |-> completion,
     quality_weight |-> quality]

\* _calculate_backlog_change of the analyzer, lines 445-453: tasks created
\* up to two days after the sprint start are the initial ones
analyzer_backlog_change(sprint_tasks, sprint_start) ==
    LET initial_tasks == SelectSeq(sprint_tasks.rows,
            LAMBDA t : t.create_date # NaT
                       /\ t.create_date <= sprint_start + 2 * UnitsPerDay)
        added_tasks == SelectSeq(sprint_tasks.rows,
            LAMBDA t : t.create_date # NaT
                       /\ t.create_date > sprint_start + 2 * UnitsPerDay)
    IN  IF nansum_estimation(initial_tasks) = 0 THEN RatInt(0)
        ELSE Rat(nansum_estimation(added_tasks) * 100, nansum_estimation(initial_tasks))

\* _calculate_status_uniformity of the analyzer, lines 455-499: 0.0 without
\* status changes, 1.0 on an exception; 1 - NaN is NaN and max(0.0, NaN) is 0.0
analyzer_status_uniformity(sprint_tasks, history, sprint_start, sprint_end) ==
    IF ~({"entity_id", "history_property_name", "history_date"} \subseteq history.columns)
    THEN RatInt(1)
    ELSE LET changes == SelectSeq(history.rows,
                 LAMBDA h : /\ \E i \in DOMAIN sprint_tasks.rows :
                                   sprint_tasks.rows[i].entity_id = h.entity_id
                            /\ h.history_property_name \in {"Status", "status"}
                            /\ h.history_date # NaT
                            /\ h.history_date >= sprint_start
                            /\ h.history_date <= sprint_end)
             changes_per_day == group_by_day(changes, EmptyDict)
         IN  IF changes = <<>> THEN RatInt(0)
             ELSE IF isnan(std(changes_per_day)) THEN RatInt(0)
             ELSE RatMax(RatInt(0),
                         RatSub(RatInt(1), RatDiv(std(changes_per_day), mean(changes_per_day))))

MetricValue(value, threshold) == [value |-> value, threshold |-> threshold]

SprintAnalysis(result) == [kind |-> "returned", result |-> result]

\* the metrics of a sprint from its tasks and daily metrics, lines 386-416
sprint_metrics(sprint_data, sprint_tasks, daily_metrics, history, parameters) ==
    [health_scores |-> calculate_health_scores(sprint_tasks, daily_metrics, parameters),
     metrics |->
         [todo |-> MetricValue(calculate_todo_percentage(sprint_tasks),
                               parameters.max_todo_percentage),
          removed |-> MetricValue(calculate_removed_percentage(sprint_tasks),
                                  parameters.max_removed_percentage),
          backlog_change |->
              MetricValue(analyzer_backlog_change(sprint_tasks, sprint_data.sprint_start_date),
                          parameters.max_backlog_change)],
     status_transition_uniformity |->
         analyzer_status_uniformity(sprint_tasks, history,
             sprint_data.sprint_start_date, sprint_data.sprint_end_date),
     daily_metrics |-> daily_metrics]

\* lines 379-380: the daily metrics up to the time point, if one is given
metrics_at_timepoint(all_days, time_point) ==
    IF time_point = <<>> THEN all_days
    ELSE filter_metrics_by_timepoint(all_days, time_point[1])

\* lines 372-384, on the tasks of the sprint
sprint_tasks_metrics(sprint_data, sprint_tasks, history, parameters, time_point) ==
    sprint_metrics(sprint_data, sprint_tasks,
        metrics_at_timepoint(
            calculate_daily_metrics(sprint_tasks.rows, history,
                sprint_data.sprint_start_date, sprint_data.sprint_end_date),
            time_point),
        history, parameters)

\* the tasks of a sprint as a frame with the columns of entities_df
sprint_tasks_frame(entities_df, entity_ids) ==
    [columns |-> entities_df.columns, rows |-> get_sprint_tasks(entities_df, entity_ids)]

analyze_sprint_health(entities_df, sprint_rows, history, sprint_id, parameters, time_point) ==
    LET matching == SelectSeq(sprint_rows, LAMBDA r : r.sprint_name = sprint_id)
    IN  IF matching = <<>> THEN Raised("IndexError")
        ELSE IF time_point # <<>> /\ time_point[1] \notin 0 .. 100 THEN Raised("ValueError")
        ELSE IF "resolution" \notin entities_df.columns THEN Raised("KeyError")
        ELSE SprintAnalysis(
                 sprint_tasks_metrics(matching[1],
                     sprint_tasks_frame(entities_df, matching[1].entity_ids),
                     history, parameters, time_point))

(***************************************************************************)
(* AnalyzerSpec: the analyzer's _get_tasks_state_for_date and the          *)
(* calculator's calculate_health_scores, called on the tasks of a sprint   *)
(* of an analyzer that holds the tables.                                   *)
(***************************************************************************)
\* a SprintHealthAnalyzer; load_data_completed tells whether its load_data()
\* ran to the end
Analyzer(load_data_completed) ==
    [kind |-> "SprintHealthAnalyzer", load_data_completed |-> load_data_completed]

\* the tasks as load_data leaves them, with the processing_time column of
\* sprint_health.py lines 279-284
with_processing_time(frame) ==
    [frame EXCEPT !.columns = frame.columns \cup {"processing_time"}]

\* a tasks table read from a file that has no resolution column
TasksWithoutResolution ==
    [columns |-> TaskColumns \ {"resolution"},
     rows |-> [i \in DOMAIN DefaultTasks.rows |->
                  [f \in DOMAIN DefaultTasks.rows[i] \ {"resolution"} |->
                      DefaultTasks.rows[i][f]]]]

\* the weights of api.py lines 118-121 by default, and weights that single
\* out one component
DefaultParameters ==
    HealthParameters(20, 10, 20, Rat(1, 4), Rat(1, 4), Rat(1, 4), Rat(1, 4))

ParameterSets ==
    {DefaultParameters,
     HealthParameters(15, 5, 15, RatInt(1), RatInt(0), RatInt(0), RatInt(0)),
     HealthParameters(20, 10, 20, RatInt(0), RatInt(0), RatInt(1), RatInt(0))}

TimePoints == {<<>>, <<0>>, <<50>>, <<100>>}

\* the dates asked for: from day 0 to the day after the end of sprint S1
LastDay == date_of(SprintS1.sprint_end_date) + 1

InitAnalyzerSpec ==
    /\ \/ /\ tasks \in TaskFrames \cup {with_processing_time(DefaultTasks),
                                       TasksWithoutResolution}
          /\ history_df = DefaultHistory
       \/ /\ tasks = DefaultTasks
          /\ history_df \in HistoryFrames
    /\ sprints = <<SprintS1, SprintS2>>
    /\ call = NoCall
    /\ outcome = NoCall
    /\ repeat = FALSE
    /\ buckets = NoBuckets
    /\ data_loader = Constructed
    /\ analyzer = Analyzer(TRUE)

\* analyzer._get_tasks_state_for_date(sprint_tasks, date) on the tasks of a sprint
Call_get_tasks_state_for_date(sprint_data, date) ==
    LET sprint_tasks == get_sprint_tasks(tasks, sprint_data.entity_ids)
    IN  /\ call' = [kind |-> "get_tasks_state_for_date",
                    sprint_tasks |-> sprint_tasks, date |-> date]
        /\ outcome' = SprintAnalysis(get_tasks_state_for_date(sprint_tasks, history_df, date))
        /\ repeat' = FALSE
        /\ UNCHANGED <<tasks, sprints, history_df, buckets, data_loader, analyzer>>

\* health_calculator.calculate_health_scores(sprint_tasks, daily_metrics,
\* parameters) as analyze_sprint_health calls it, lines 366-384
HealthScoresCalled(sprint_tasks, daily_metrics, parameters) ==
    /\ call' = [kind |-> "calculate_health_scores", sprint_tasks |-> sprint_tasks,
                daily_metrics |-> daily_metrics, parameters |-> parameters]
    /\ outcome' = SprintAnalysis(
                      calculate_health_scores(sprint_tasks, daily_metrics, parameters))
    /\ repeat' = FALSE
    /\ UNCHANGED <<tasks, sprints, history_df, buckets, data_loader, analyzer>>

Call_calculate_health_scores(sprint_data, time_point, parameters) ==
    HealthScoresCalled(
        sprint_tasks_frame(tasks, sprint_data.entity_ids),
        metrics_at_timepoint(
            calculate_daily_metrics(get_sprint_tasks(tasks, sprint_data.entity_ids),
                history_df, sprint_data.sprint_start_date, sprint_data.sprint_end_date),
            time_point),
        parameters)

NextAnalyzerSpec ==
    \/ \E i \in DOMAIN sprints, day \in 0 .. LastDay :
           Call_get_tasks_state_for_date(sprints[i], At(day, 0))
    \/ \E i \in DOMAIN sprints, time_point \in TimePoints, parameters \in ParameterSets :
           Call_calculate_health_scores(sprints[i], time_point, parameters)

AnalyzerSpec == InitAnalyzerSpec /\ [][NextAnalyzerSpec]_vars

\* C30: for every date the todo, in_progress, done and removed counts of
\* _get_tasks_state_for_date add up to the number of sprint tasks, also on
\* dates before which no status change was recorded.
C30_StateCountsCoverSprintTasks ==
    call.kind = "get_tasks_state_for_date"
    => outcome.result.todo + outcome.result.in_progress
       + outcome.result.done + outcome.result.removed = Len(call.sprint_tasks)

\* the score the caller's weights give the three components they name
caller_weighted(components, parameters) ==
    RatDiv(RatAdd(RatMul(parameters.uniformity_weight, components.uniformity_score),
                  RatAdd(RatMul(parameters.backlog_weight, components.backlog_score),
                         RatMul(parameters.completion_weight, components.completion_score))),
           RatAdd(parameters.uniformity_weight,
                  RatAdd(parameters.backlog_weight, parameters.completion_weight)))

\* C24: calculate_health_scores applies the caller's uniformity_weight,
\* backlog_weight and completion_weight to the uniformity, backlog and
\* completion scores, so that calls on the same tasks and daily metrics whose
\* weights rate these components differently return different scores.
C24_CallerWeightsApplied ==
    call.kind = "calculate_health_scores"
    => /\ applied_weights(call.parameters).uniformity_score
              = call.parameters.uniformity_weight
       /\ applied_weights(call.parameters).backlog_score = call.parameters.backlog_weight
       /\ applied_weights(call.parameters).completion_score
              = call.parameters.completion_weight
       /\ \A other \in ParameterSets :
              caller_weighted(outcome.result.components, other)
                  # caller_weighted(outcome.result.components, call.parameters)
              => calculate_health_scores(call.sprint_tasks, call.daily_metrics,
                                         other).original
                     # outcome.result.original

(***************************************************************************)
(* NewApiSpec: new/api.py.  The module-level analyzer, init_analyzer and   *)
(* GET /api/sprint-health.  tasks, sprints and history_df are the tables   *)
(* of the data files, the same in every data directory that exists; an     *)
(* analyzer holds them from its construction on.                           *)
(***************************************************************************)
\* the places DataLoader looks for the data directory, data_loader.py
\* lines 14-21, and those load_data looks in, sprint_health.py lines 69-75
DataLoaderPaths ==
    <<"cwd", "cwd/new", "cwd/analysis", "script_dir", "script_dir/..", "absolute">>

LoadDataPaths == <<"script_dir", "cwd", "cwd/analysis", "script_dir/..", "absolute">>

\* for path in possible_paths: if path.exists()
found_data_directory(possible_paths, existing) ==
    \E i \in DOMAIN possible_paths : possible_paths[i] \in existing

\* init_analyzer, api.py lines 53-63: the analyzer it leaves, and whether it
\* raised.  The global is assigned before load_data is called.
init_analyzer(current, existing) ==
    IF current # None THEN [analyzer |-> current, raised |-> FALSE]
    ELSE IF ~found_data_directory(DataLoaderPaths, existing)
    THEN [analyzer |-> None, raised |-> TRUE]
    ELSE IF ~found_data_directory(LoadDataPaths, existing)
    THEN [analyzer |-> Analyzer(FALSE), raised |-> TRUE]
    ELSE [analyzer |-> Analyzer(TRUE), raised |-> FALSE]

\* analyzer.entities_df: load_data adds processing_time, the constructor's
\* DataLoader does not
entities_of(held) == IF held.load_data_completed THEN with_processing_time(tasks) ELSE tasks

\* the entry of one sprint in results['sprints'], lines 152-207, from what
\* analyze_sprint_health returned or raised
sprint_entry(metrics) ==
    IF metrics.kind = "raised" THEN [error |-> metrics.error]
    ELSE [health_score |-> metrics.result.health_scores.original,
          category_scores |->
              [delivery |-> metrics.result.status_transition_uniformity,
               stability |-> RatInt(1),
               flow |-> metrics.result.status_transition_uniformity,
               quality |-> RatInt(0),
               team_load |-> RatInt(0)],
          metrics |-> metrics.result.metrics,
          daily_metrics |-> metrics.result.daily_metrics]

sprint_result(held, sprint_id, parameters, time_point) ==
    sprint_entry(analyze_sprint_health(entities_of(held), sprints, history_df,
                                       sprint_id, parameters, time_point))

\* the mean of a value of the entries without an error, lines 216-233
average_over(valid, f) == RatDiv(SumOver(f, valid), RatInt(Cardinality(valid)))

\* results['aggregated'], lines 213-233
aggregated(by_sprint, valid) ==
    IF valid = {} THEN [health_score |-> RatInt(0), metrics |-> <<>>]
    ELSE [health_score |->
              average_over(valid, [id \in valid |-> by_sprint[id].health_score]),
          metrics |->
              [name \in {"todo", "removed", "backlog_change"} |->
                  average_over(valid, [id \in valid |-> by_sprint[id].metrics[name].value])]]

results_of(by_sprint) ==
    [sprints |-> by_sprint,
     aggregated |->
         aggregated(by_sprint,
                    {id \in DOMAIN by_sprint : "error" \notin DOMAIN by_sprint[id]})]

\* results, lines 143-235: the entries by sprint id and the averages
sprint_health_results(held, sprint_ids, parameters, time_point) ==
    results_of([id \in {sprint_ids[i] : i \in DOMAIN sprint_ids} |->
                   sprint_result(held, id, parameters, time_point)])

\* the sprint ids that are no sprint_name of the sprints table, lines 135-136
invalid_sprints(sprint_ids) ==
    SelectSeq(sprint_ids, LAMBDA id : \A k \in DOMAIN sprints : sprints[k].sprint_name # id)

\* lines 131-235 once init_analyzer was called or skipped
get_sprint_health_with(initialized, sprint_ids, time_point, parameters) ==
    IF initialized.raised
    THEN [analyzer |-> initialized.analyzer, analyzed |-> <<>>,
          left |-> Raised("FileNotFoundError")]
    ELSE IF invalid_sprints(sprint_ids) # <<>>
    THEN [analyzer |-> initialized.analyzer, analyzed |-> <<>>,
          left |-> HTTPException(404, "Sprints not found")]
    ELSE [analyzer |-> initialized.analyzer, analyzed |-> sprint_ids,
          left |-> SprintAnalysis(sprint_health_results(initialized.analyzer, sprint_ids,
                                                        parameters, time_point))]

\* the body of the try block, lines 123-235: the analyzer it leaves, the
\* sprints it analyzed, and the result or what it raised
get_sprint_health_try(current, existing, sprint_ids, time_point, parameters) ==
    IF time_point # <<>> /\ ~(0 <= time_point[1] /\ time_point[1] <= 100)
    THEN [analyzer |-> current, analyzed |-> <<>>,
          left |-> HTTPException(400, "Time point must be between 0 and 100")]
    ELSE get_sprint_health_with(init_analyzer(current, existing),
                                sprint_ids, time_point, parameters)

every_exception_to_500(raised) ==
    HTTPException(500, "Failed to calculate sprint health")

\* the except clauses, lines 237-244: an HTTPException is raised again
get_sprint_health_except(raised) ==
    IF raised.error = "HTTPException" THEN raised
    ELSE HTTPException(500, "Failed to calculate sprint health")

\* the response, with the sprints that were analyzed and the analyzer the
\* request leaves
SprintHealthResponse(status_code, body, tried) ==
    [kind |-> "response", status_code |-> status_code, body |-> body,
     analyzed |-> tried.analyzed, analyzer |-> tried.analyzer]

\* an HTTPException leaving the handler becomes the response with its status
sprint_health_response(tried) ==
    IF tried.left.kind = "returned" THEN SprintHealthResponse(200, tried.left.result, tried)
    ELSE SprintHealthResponse(get_sprint_health_except(tried.left).status_code,
                              get_sprint_health_except(tried.left).detail, tried)

\* GET /api/sprint-health, lines 106-244
get_sprint_health(current, existing, sprint_ids, time_point, parameters) ==
    sprint_health_response(
        get_sprint_health_try(current, existing, sprint_ids, time_point, parameters))

\* the data directories that exist when a call is made
Environments == {{}, {"cwd/new"}, {"script_dir"}, {"cwd/new", "absolute"}}

RequestedSprints == {<<"S1">>, <<"S2", "S1">>, <<"SX">>, <<"S1", "SX">>}
RequestedTimePoints == {<<>>, <<50>>, <<150>>}

InitNewApi ==
    /\ tasks \in {DefaultTasks, TasksWithoutResolution}
    /\ sprints \in {<<SprintS1, SprintS2>>, <<SprintS2>>}
    /\ history_df = DefaultHistory
    /\ analyzer = None
    /\ call = NoCall
    /\ outcome = NoCall
    /\ repeat = FALSE
    /\ buckets = NoBuckets
    /\ data_loader = Constructed

\* init_analyzer(), called by startup_event (lines 78-81) or by hand
Call_init_analyzer(existing) ==
    /\ call' = [kind |-> "init_analyzer", existing |-> existing, found |-> analyzer]
    /\ analyzer' = init_analyzer(analyzer, existing).analyzer
    /\ outcome' = IF init_analyzer(analyzer, existing).raised
                  THEN Raised("FileNotFoundError") ELSE [kind |-> "returned"]
    /\ repeat' = FALSE
    /\ UNCHANGED <<tasks, sprints, history_df, buckets, data_loader>>

\* one request of GET /api/sprint-health
GetSprintHealth(existing, sprint_ids, time_point, parameters) ==
    /\ call' = [kind |-> "get_sprint_health", existing |-> existing, found |-> analyzer,
                sprint_ids |-> sprint_ids, time_point |-> time_point,
                parameters |-> parameters]
    /\ outcome' = get_sprint_health(analyzer, existing, sprint_ids, time_point, parameters)
    /\ analyzer' = outcome'.analyzer
    /\ repeat' = FALSE
    /\ UNCHANGED <<tasks, sprints, history_df, buckets, data_loader>>

NextNewApi ==
    \/ \E existing \in Environments : Call_init_analyzer(existing)
    \/ \E existing \in Environments, sprint_ids \in RequestedSprints,
          time_point \in RequestedTimePoints, parameters \in ParameterSets :
           GetSprintHealth(existing, sprint_ids, time_point, parameters)

NewApiSpec == InitNewApi /\ [][NextNewApi]_vars

\* C29: after any sequence of init_analyzer calls the global analyzer is None
\* or an analyzer whose load_data() completed, and an initialization that
\* failed leaves it None.
C29_AnalyzerNoneOrLoaded ==
    /\ analyzer = None \/ analyzer.load_data_completed
    /\ (call.kind = "init_analyzer" /\ outcome.kind = "raised") => analyzer = None

\* the request met an analyzer, or initialized one without an exception
AnalyzerAvailable ==
    /\ analyzer # None
    /\ call.found # None \/ analyzer.load_data_completed

UnknownSprintRequested ==
    \E i \in DOMAIN call.sprint_ids :
        \A k \in DOMAIN sprints : sprints[k].sprint_name # call.sprint_ids[i]

TimePointOutside ==
    call.time_point # <<>> /\ (call.time_point[1] < 0 \/ call.time_point[1] > 100)

\* C21: GET /api/sprint-health answers 400 when time_point is outside
\* [0, 100] and, with an analyzer at hand, 404 when a requested sprint id is
\* unknown; in both cases no sprint is analyzed and the client receives the
\* status of the validation, not a 500.
C21_ValidationStatusReachesClient ==
    call.kind = "get_sprint_health"
    => /\ TimePointOutside
              => outcome.status_code = 400 /\ outcome.analyzed = <<>>
       /\ (~TimePointOutside /\ AnalyzerAvailable /\ UnknownSprintRequested)
              => outcome.status_code = 404 /\ outcome.analyzed = <<>>

\* a request for a known and an unknown sprint, answered 404
C21_Witness ==
    /\ call.kind = "get_sprint_health"
    /\ call.sprint_ids = <<"S1", "SX">>
    /\ call.time_point = <<50>>
    /\ sprints = <<SprintS1, SprintS2>>
    /\ AnalyzerAvailable
    /\ outcome.status_code = 404
    /\ outcome.analyzed = <<>>

====
